---- MODULE Spec2Model ----
(***************************************************************************)
(* Model of the inbox synchronisation and awaiting-reply reconciliation    *)
(* engine of agentbot (app/services/gmail_sync.py and its collaborators).  *)
(*                                                                         *)
(* Conventions.  A Python Optional is a sequence of length 0 (None) or 1.  *)
(* A Python str that the code normalises (strip / lower) is a sequence of  *)
(* one-character strings.  Times are integers in one abstract unit (day).  *)
(***************************************************************************)
EXTENDS Integers, Sequences, FiniteSets, TLC

VARIABLES
    mailbox,      \* remote mailbox: thread id -> sequence of messages
    history,      \* remote change log: history[i] = thread touched by event i
    expired,      \* remote: the provider no longer serves markers <= expired
    tickets,      \* committed thread_tickets table: thread id -> Optional row
    app_state,    \* committed app_state row "gmail_history_id": Optional value
    blacklist,    \* committed blacklisted_senders.email values
    MY_EMAILS,    \* settings.MY_EMAILS split at ",": sequence of raw entries
    run,          \* per sync invocation: position, arguments, locals, session
    chain,        \* observer: consecutive undisturbed runs with equal arguments
    last_read,    \* observer: marker read by the latest committed non-range run
    last_error,   \* observer: the last exception a request handler let through,
                  \* and the outcome of the last flush request
    ai_log,       \* observer: <<thread, message>> classified by a committed sync run
    now,          \* datetime.utcnow(), in seconds
    reminders,    \* per run_reminders invocation: position, locals, loaded rows
    digests       \* observer: thread id -> time of the latest digest that listed it

\* the clock and the reminder job
reminder_state == <<now, reminders, digests>>

vars == <<mailbox, history, expired, tickets, app_state, blacklist, MY_EMAILS,
          run, chain, last_read, last_error, ai_log, now, reminders, digests>>

----------------------------------------------------------------------------
(* Bounds of the model *)

MaxHist == 2        \* number of remote change events
MaxMsgs == 2        \* thread length in the reconciler's input space
MaxTs == 2          \* largest message timestamp in the reconciler's input space

Threads == {"t1", "t2"}
Runs == {1, 2}

None == <<>>
Some(x) == <<x>>
IsSet(o) == o # <<>>
Val(o) == o[1]

\* run_reminders before it is called
IdleReminder == [pc |-> "idle", now |-> 0, tickets |-> <<>>, loaded |-> <<>>, result |-> None]

----------------------------------------------------------------------------
(* Strings: str.strip() and str.lower() *)

LowerOf == [c \in {"M", "E", "S", "P", "C", "U"} |->
              CASE c = "M" -> "m" [] c = "E" -> "e" [] c = "S" -> "s"
                [] c = "P" -> "p" [] c = "C" -> "c" [] c = "U" -> "u"]

LowerChar(c) == IF c \in DOMAIN LowerOf THEN LowerOf[c] ELSE c

Lower(s) == [i \in 1..Len(s) |-> LowerChar(s[i])]

RECURSIVE LStrip(_)
LStrip(s) == IF s # <<>> /\ Head(s) = " " THEN LStrip(Tail(s)) ELSE s

RECURSIVE RStrip(_)
RStrip(s) == IF s # <<>> /\ s[Len(s)] = " " THEN RStrip(SubSeq(s, 1, Len(s) - 1)) ELSE s

Strip(s) == RStrip(LStrip(s))

\* str.upper() on the letters of the flush confirmations
UpperOf == [c \in {"f", "l", "u", "s", "h", "y", "e"} |->
              CASE c = "f" -> "F" [] c = "l" -> "L" [] c = "u" -> "U" [] c = "s" -> "S"
                [] c = "h" -> "H" [] c = "y" -> "Y" [] c = "e" -> "E"]

UpperChar(c) == IF c \in DOMAIN UpperOf THEN UpperOf[c] ELSE c

Upper(s) == [i \in 1..Len(s) |-> UpperChar(s[i])]

----------------------------------------------------------------------------
(* app/config.py and app/services/gmail_client.py *)

\* Settings.my_emails_list: the stripped, lowercased, non-empty entries
my_emails_list(cfg) ==
    {Lower(Strip(cfg[i])) : i \in {j \in 1..Len(cfg) : Strip(cfg[j]) # <<>>}}

\* parse_email_address: (display name, lowercased address), None for empty
parse_email_address(from_header) ==
    IF from_header = None
    THEN [name |-> <<>>, email |-> <<>>]
    ELSE [name |-> Strip(Val(from_header).name),
          email |-> Lower(Strip(Val(from_header).addr))]

is_from_me_nolower(from_header, cfg) ==
    LET email == IF from_header = None THEN <<>> ELSE Strip(Val(from_header).addr)
    IN  /\ email # <<>>
        /\ email \in my_emails_list(cfg)

is_from_me(from_header, cfg) ==
    LET email == parse_email_address(from_header).email
        my == my_emails_list(cfg)
    IN  /\ email # <<>>
        /\ my # {}
        /\ Lower(email) \in my

----------------------------------------------------------------------------
(* app/services/gmail_sync.py: _upsert_ticket_from_thread, pure part *)

\* line 261: direction of one message
outbound(m, cfg) == ("SENT" \in m.labelIds) \/ is_from_me(m.from_h, cfg)

\* lines 247-269: one pass over the messages, two nil-safe running trackers;
\* a message without internalDate is skipped (line 262)
RECURSIVE scan(_, _, _, _)
scan(messages, cfg, i, acc) ==
    IF i > Len(messages) THEN acc
    ELSE LET m == messages[i]
             dt == m.internalDate
         IN  IF dt = None THEN scan(messages, cfg, i + 1, acc)
             ELSE IF outbound(m, cfg)
             THEN scan(messages, cfg, i + 1,
                       IF acc.last_outbound_at = None \/ Val(dt) > Val(acc.last_outbound_at)
                       THEN [acc EXCEPT !.last_outbound_at = dt] ELSE acc)
             ELSE scan(messages, cfg, i + 1,
                       IF acc.last_inbound_at = None \/ Val(dt) > Val(acc.last_inbound_at)
                       THEN [acc EXCEPT !.last_inbound_at = dt] ELSE acc)

trackers(messages, cfg) ==
    scan(messages, cfg, 1, [last_inbound_at |-> None, last_outbound_at |-> None])

awaiting_reply_nonstrict(messages, cfg) ==
    LET li == trackers(messages, cfg).last_inbound_at
        lo == trackers(messages, cfg).last_outbound_at
    IN  IsSet(li) /\ (lo = None \/ Val(li) >= Val(lo))

\* line 271
awaiting_reply(messages, cfg) ==
    LET li == trackers(messages, cfg).last_inbound_at
        lo == trackers(messages, cfg).last_outbound_at
    IN  IsSet(li) /\ (lo = None \/ Val(li) > Val(lo))

\* line 320: days = {'high': 0, 'medium': 2, 'low': 3}.get(priority, 2)
due_days(priority) ==
    CASE priority = "high" -> 0
      [] priority = "medium" -> 2
      [] priority = "low" -> 3
      [] OTHER -> 2

----------------------------------------------------------------------------
(* The SQLAlchemy session of one invocation (app/db.py: autocommit=False,
   autoflush=False).  loaded/cur are the identity map: the row as it was
   read and the object as it is now; an object that was db.add()-ed is
   pending and is not in the identity map until the flush at commit. *)

EmptySession ==
    [loaded   |-> [t \in Threads |-> None],
     cur      |-> [t \in Threads |-> None],
     dirty    |-> {},
     pending  |-> <<>>,
     st_loaded |-> None,
     st_cur   |-> None,
     st_dirty |-> FALSE,
     st_new   |-> None]

\* db.get(ThreadTicket, thread_id): identity map first, then a SELECT of the
\* committed row; pending objects are not found
db_get_ticket(sess, thread_id) ==
    IF IsSet(sess.cur[thread_id])
    THEN [sess |-> sess, obj |-> sess.cur[thread_id]]
    ELSE IF IsSet(tickets[thread_id])
    THEN [sess |-> [sess EXCEPT !.loaded[thread_id] = tickets[thread_id],
                                !.cur[thread_id] = tickets[thread_id]],
          obj |-> tickets[thread_id]]
    ELSE [sess |-> sess, obj |-> None]

\* app/services/state.py get_state: db.get(AppState, key)
db_get_state(sess) ==
    IF IsSet(sess.st_loaded) THEN sess
    ELSE IF IsSet(app_state)
    THEN [sess EXCEPT !.st_loaded = app_state, !.st_cur = app_state]
    ELSE sess

get_state(sess) == db_get_state(sess).st_cur

\* app/services/state.py set_state: insert a new row or update the loaded one
set_state(sess, value) ==
    LET s == db_get_state(sess)
    IN  IF s.st_loaded = None
        THEN [s EXCEPT !.st_new = Some(value)]
        ELSE [s EXCEPT !.st_cur = Some(value), !.st_dirty = TRUE]

\* models.py ThreadTicket as constructed at gmail_sync.py line 301
NewTicket(thread_id) ==
    [thread_id       |-> thread_id,
     last_message_id |-> None,
     from_email      |-> <<>>,
     last_message_at |-> None,
     last_from_me    |-> FALSE,
     is_unread       |-> FALSE,
     is_not_replied  |-> FALSE,
     priority        |-> "",
     due_at          |-> None,
     status          |-> "PENDING",
     ai_category     |-> None,
     ai_source_hash  |-> None,
     reminder_count  |-> 0,
     last_reminded_at |-> None]

Statuses == {"PENDING", "IN_PROGRESS", "RESPONDED", "NO_REPLY_NEEDED"}

reconcile_status_nosticky(status, awaiting) ==
    IF awaiting
    THEN IF status = "RESPONDED" THEN "PENDING" ELSE status
    ELSE "RESPONDED"

reconcile_status_nodemote(status, awaiting) ==
    IF awaiting
    THEN status
    ELSE IF status # "NO_REPLY_NEEDED" THEN "RESPONDED" ELSE status

\* lines 325-331: keep status aligned with awaiting_reply
reconcile_status(status, awaiting) ==
    IF awaiting
    THEN IF status = "RESPONDED" THEN "PENDING" ELSE status
    ELSE IF status # "NO_REPLY_NEEDED" THEN "RESPONDED" ELSE status

\* lines 304-331: the field updates applied to the found or new ticket
apply_updates_duedrift(ticket, messages, awaiting) ==
    LET last_msg == messages[Len(messages)]
        from_h == last_msg.from_h
        last_dt == last_msg.internalDate
        is_unread == \E i \in 1..Len(messages) : "UNREAD" \in messages[i].labelIds
        priority == IF ticket.priority = "" THEN "medium" ELSE ticket.priority
    IN  [ticket EXCEPT
            !.last_message_id = Some(last_msg.id),
            !.last_message_at = last_dt,
            !.is_unread = is_unread,
            !.last_from_me = ("SENT" \in last_msg.labelIds) \/ is_from_me(from_h, MY_EMAILS),
            !.from_email = parse_email_address(from_h).email,
            !.priority = priority,
            !.due_at = IF IsSet(@) THEN Some(Val(@) + due_days(priority))
                      ELSE IF IsSet(last_dt) THEN Some(Val(last_dt) + due_days(priority)) ELSE @,
            !.is_not_replied = awaiting,
            !.status = reconcile_status(@, awaiting)]

apply_updates_stickyflag(ticket, messages, awaiting) ==
    LET last_msg == messages[Len(messages)]
        from_h == last_msg.from_h
        last_dt == last_msg.internalDate
        is_unread == \E i \in 1..Len(messages) : "UNREAD" \in messages[i].labelIds
        priority == IF ticket.priority = "" THEN "medium" ELSE ticket.priority
    IN  [ticket EXCEPT
            !.last_message_id = Some(last_msg.id),
            !.last_message_at = last_dt,
            !.is_unread = is_unread,
            !.last_from_me = ("SENT" \in last_msg.labelIds) \/ is_from_me(from_h, MY_EMAILS),
            !.from_email = parse_email_address(from_h).email,
            !.priority = priority,
            !.due_at = IF IsSet(last_dt) THEN Some(Val(last_dt) + due_days(priority)) ELSE @,
            !.is_not_replied = awaiting \/ @,
            !.status = reconcile_status(@, awaiting)]

apply_updates(ticket, messages, awaiting) ==
    LET last_msg == messages[Len(messages)]
        from_h == last_msg.from_h
        last_dt == last_msg.internalDate
        is_unread == \E i \in 1..Len(messages) : "UNREAD" \in messages[i].labelIds
        priority == IF ticket.priority = "" THEN "medium" ELSE ticket.priority
    IN  [ticket EXCEPT
            !.last_message_id = Some(last_msg.id),
            !.last_message_at = last_dt,
            !.is_unread = is_unread,
            !.last_from_me = ("SENT" \in last_msg.labelIds) \/ is_from_me(from_h, MY_EMAILS),
            !.from_email = parse_email_address(from_h).email,
            !.priority = priority,
            !.due_at = IF IsSet(last_dt) THEN Some(Val(last_dt) + due_days(priority)) ELSE @,
            !.is_not_replied = awaiting,
            !.status = reconcile_status(@, awaiting)]

\* lines 288-292: is the sender of the last message blacklisted
is_blacklisted_firstmsg(messages) ==
    LET from_email == parse_email_address(messages[1].from_h).email
    IN  from_email # <<>> /\ Lower(from_email) \in blacklist

is_blacklisted(messages) ==
    LET from_email == parse_email_address(messages[Len(messages)].from_h).email
    IN  from_email # <<>> /\ Lower(from_email) \in blacklist

\* the reconciler with the awaiting-only test the wrong way round
_upsert_ticket_from_thread_inverted(sess, thread_id, messages, awaiting_only) ==
    IF messages = <<>>
    THEN [ret |-> FALSE, sess |-> sess, awaiting |-> None]
    ELSE
    LET aw == awaiting_reply(messages, MY_EMAILS)
        got == db_get_ticket(sess, thread_id)
    IN  IF is_blacklisted(messages)
        THEN [ret |-> FALSE, sess |-> sess, awaiting |-> Some(aw)]
        ELSE IF got.obj = None /\ awaiting_only /\ aw
        THEN [ret |-> FALSE, sess |-> got.sess, awaiting |-> Some(aw)]
        ELSE IF got.obj = None
        THEN [ret |-> TRUE,
              sess |-> [got.sess EXCEPT !.pending =
                          Append(@, apply_updates(NewTicket(thread_id), messages, aw))],
              awaiting |-> Some(aw)]
        ELSE [ret |-> TRUE,
              sess |-> [got.sess EXCEPT
                          !.cur[thread_id] = Some(apply_updates(Val(got.obj), messages, aw)),
                          !.dirty = @ \cup {thread_id}],
              awaiting |-> Some(aw)]

\* the reconciler without the awaiting-only filter
_upsert_ticket_from_thread_nofilter(sess, thread_id, messages, awaiting_only) ==
    IF messages = <<>>
    THEN [ret |-> FALSE, sess |-> sess, awaiting |-> None]
    ELSE
    LET aw == awaiting_reply(messages, MY_EMAILS)
        got == db_get_ticket(sess, thread_id)
    IN  IF is_blacklisted(messages)
        THEN [ret |-> FALSE, sess |-> sess, awaiting |-> Some(aw)]
        ELSE IF got.obj = None /\ FALSE /\ ~aw
        THEN [ret |-> FALSE, sess |-> got.sess, awaiting |-> Some(aw)]
        ELSE IF got.obj = None
        THEN [ret |-> TRUE,
              sess |-> [got.sess EXCEPT !.pending =
                          Append(@, apply_updates(NewTicket(thread_id), messages, aw))],
              awaiting |-> Some(aw)]
        ELSE [ret |-> TRUE,
              sess |-> [got.sess EXCEPT
                          !.cur[thread_id] = Some(apply_updates(Val(got.obj), messages, aw)),
                          !.dirty = @ \cup {thread_id}],
              awaiting |-> Some(aw)]

\* _upsert_ticket_from_thread after the thread detail was fetched:
\* the return value, the session afterwards and the awaiting_reply local
_upsert_ticket_from_thread(sess, thread_id, messages, awaiting_only) ==
    IF messages = <<>>
    THEN [ret |-> FALSE, sess |-> sess, awaiting |-> None]
    ELSE
    LET aw == awaiting_reply(messages, MY_EMAILS)
        got == db_get_ticket(sess, thread_id)
    IN  IF is_blacklisted(messages)
        THEN [ret |-> FALSE, sess |-> sess, awaiting |-> Some(aw)]
        ELSE IF got.obj = None /\ awaiting_only /\ ~aw
        THEN [ret |-> FALSE, sess |-> got.sess, awaiting |-> Some(aw)]
        ELSE IF got.obj = None
        THEN [ret |-> TRUE,
              sess |-> [got.sess EXCEPT !.pending =
                          Append(@, apply_updates(NewTicket(thread_id), messages, aw))],
              awaiting |-> Some(aw)]
        ELSE [ret |-> TRUE,
              sess |-> [got.sess EXCEPT
                          !.cur[thread_id] = Some(apply_updates(Val(got.obj), messages, aw)),
                          !.dirty = @ \cup {thread_id}],
              awaiting |-> Some(aw)]

----------------------------------------------------------------------------
(* Automatic classification: app/services/ai_assistant.py and lines 333-360
   of gmail_sync.py.  The texts of a message (Subject header, snippet,
   decoded body) are given by its id; the subject and snippet columns of a
   ticket are assigned with last_message_id (lines 304-306) and are read
   through it. *)

AiCategories == {"billing", "general"}

subject_of(id) == <<"R", "e", " ">>
snippet_of(id) == <<" ", "n", ToString(id)>>
body_of(id) == <<"b", ToString(id), " ">>

ticket_subject(ticket) ==
    IF IsSet(ticket.last_message_id) THEN subject_of(Val(ticket.last_message_id)) ELSE <<>>

ticket_snippet(ticket) ==
    IF IsSet(ticket.last_message_id) THEN snippet_of(Val(ticket.last_message_id)) ELSE <<>>

\* ai_assistant.py _norm
_norm(s) == Strip(s)

\* ai_assistant.py content_hash: the digest of _norm(p) + "\n" over the parts,
\* represented by the digested text itself
RECURSIVE content_hash(_)
content_hash(parts) ==
    IF parts = <<>> THEN <<>>
    ELSE _norm(Head(parts)) \o <<"\n">> \o content_hash(Tail(parts))

\* body[:4000]
BodyLimit == 4000
Truncate(s, n) == IF Len(s) > n THEN SubSeq(s, 1, n) ELSE s

\* what the classification step meets: the body fetch fails, the classifier
\* fails, or the classifier answers with a category
TriageOutcomes == AiCategories \cup {"body_error", "classifier_error"}

\* the classification step storing the hash before the classifier is called
auto_triage_hashfirst(ticket, last_msg, awaiting, outcome) ==
    IF ~awaiting
    THEN [ticket |-> ticket, triaged |-> FALSE, ai_error |-> FALSE]
    ELSE IF outcome = "body_error"
    THEN [ticket |-> ticket, triaged |-> FALSE, ai_error |-> TRUE]
    ELSE
    LET h == content_hash(<<subject_of(last_msg.id), snippet_of(last_msg.id),
                            Truncate(body_of(last_msg.id), BodyLimit)>>)
    IN  IF ticket.ai_source_hash = Some(h)
        THEN [ticket |-> ticket, triaged |-> FALSE, ai_error |-> FALSE]
        ELSE IF outcome = "classifier_error"
        THEN [ticket |-> [ticket EXCEPT !.ai_source_hash = Some(h)],
              triaged |-> TRUE, ai_error |-> TRUE]
        ELSE [ticket |-> [ticket EXCEPT !.ai_category = Some(outcome),
                                        !.ai_source_hash = Some(h)],
              triaged |-> TRUE, ai_error |-> FALSE]

\* lines 334-360 with awaiting_reply true or false: the ticket afterwards,
\* whether triage_email was called, whether an exception was swallowed
auto_triage(ticket, last_msg, awaiting, outcome) ==
    IF ~awaiting
    THEN [ticket |-> ticket, triaged |-> FALSE, ai_error |-> FALSE]
    ELSE IF outcome = "body_error"
    THEN [ticket |-> ticket, triaged |-> FALSE, ai_error |-> TRUE]
    ELSE
    LET h == content_hash(<<subject_of(last_msg.id), snippet_of(last_msg.id),
                            Truncate(body_of(last_msg.id), BodyLimit)>>)
    IN  IF ticket.ai_source_hash = Some(h)
        THEN [ticket |-> ticket, triaged |-> FALSE, ai_error |-> FALSE]
        ELSE IF outcome = "classifier_error"
        THEN [ticket |-> ticket, triaged |-> TRUE, ai_error |-> TRUE]
        ELSE [ticket |-> [ticket EXCEPT !.ai_category = Some(outcome),
                                        !.ai_source_hash = Some(h)],
              triaged |-> TRUE, ai_error |-> FALSE]

\* lines 349-353 reached or not: the classified ticket replaces the staged one
with_classification(res, thread_id, is_new, tri) ==
    [ret |-> TRUE,
     sess |-> IF is_new
              THEN [res.sess EXCEPT !.pending[Len(res.sess.pending)] = tri.ticket]
              ELSE [res.sess EXCEPT !.cur[thread_id] = Some(tri.ticket)],
     awaiting |-> res.awaiting,
     triaged |-> tri.triaged,
     ai_error |-> tri.ai_error]

\* lines 333-363 after the field updates of lines 304-331 (res)
classify_staged(sess, thread_id, messages, flag, outcome, res) ==
    IF ~res.ret \/ ~flag
    THEN [ret |-> res.ret, sess |-> res.sess, awaiting |-> res.awaiting,
          triaged |-> FALSE, ai_error |-> FALSE]
    ELSE
    LET is_new == Len(res.sess.pending) > Len(sess.pending)
        ticket == IF is_new THEN res.sess.pending[Len(res.sess.pending)]
                  ELSE Val(res.sess.cur[thread_id])
    IN  with_classification(res, thread_id, is_new,
            auto_triage(ticket, messages[Len(messages)], Val(res.awaiting), outcome))

\* _upsert_ticket_from_thread with its auto_triage parameter: lines 218-363
_upsert_ticket_from_thread_auto(sess, thread_id, messages, awaiting_only, flag, outcome) ==
    classify_staged(sess, thread_id, messages, flag, outcome,
        _upsert_ticket_from_thread(sess, thread_id, messages, awaiting_only))

\* Session.commit(): flush the pending INSERTs and the dirty UPDATEs in one
\* transaction.  An INSERT of an existing key (IntegrityError) or an UPDATE
\* of a row that is gone (StaleDataError) fails the whole commit.
commit_error(sess) ==
    IF \/ \E i \in 1..Len(sess.pending) : IsSet(tickets[sess.pending[i].thread_id])
       \/ \E i, j \in 1..Len(sess.pending) :
             i # j /\ sess.pending[i].thread_id = sess.pending[j].thread_id
       \/ IsSet(sess.st_new) /\ IsSet(app_state)
    THEN "IntegrityError"
    ELSE IF \/ \E t \in sess.dirty : tickets[t] = None
            \/ sess.st_dirty /\ app_state = None
    THEN "StaleDataError"
    ELSE ""

\* an UPDATE carries only the attributes whose value differs from the loaded one
merge_row(row, loaded, cur) ==
    [f \in DOMAIN row |-> IF cur[f] # loaded[f] THEN cur[f] ELSE row[f]]

\* a commit that writes the updates and the watermark but loses the inserts
committed_tickets_nopending(sess) ==
    [t \in Threads |->
        IF t \in sess.dirty
        THEN Some(merge_row(Val(tickets[t]), Val(sess.loaded[t]), Val(sess.cur[t])))
        ELSE tickets[t]]

\* a commit that rewrites the table from the rows of the session
committed_tickets_replace(sess) ==
    [t \in Threads |->
        IF \E i \in 1..Len(sess.pending) : sess.pending[i].thread_id = t
        THEN LET i == CHOOSE j \in 1..Len(sess.pending) : sess.pending[j].thread_id = t
             IN  Some(sess.pending[i])
        ELSE IF t \in sess.dirty
        THEN Some(merge_row(Val(tickets[t]), Val(sess.loaded[t]), Val(sess.cur[t])))
        ELSE None]

committed_tickets(sess) ==
    [t \in Threads |->
        IF \E i \in 1..Len(sess.pending) : sess.pending[i].thread_id = t
        THEN LET i == CHOOSE j \in 1..Len(sess.pending) : sess.pending[j].thread_id = t
             IN  Some(sess.pending[i])
        ELSE IF t \in sess.dirty
        THEN Some(merge_row(Val(tickets[t]), Val(sess.loaded[t]), Val(sess.cur[t])))
        ELSE tickets[t]]

\* the UPDATE of the app_state row carries the value only when it differs
\* from the value that was loaded
committed_state(sess) ==
    IF IsSet(sess.st_new) THEN sess.st_new
    ELSE IF sess.st_dirty /\ sess.st_cur # sess.st_loaded THEN sess.st_cur
    ELSE app_state

----------------------------------------------------------------------------
(* The remote mailbox (Gmail API), as the gateway calls of gmail_sync.py see it *)

CustFrom == Some([name |-> <<"C">>, addr |-> <<"C", "u">>])
SpamFrom == Some([name |-> <<>>, addr |-> <<"S", "p">>])
MeFrom   == Some([name |-> <<"M">>, addr |-> <<"M", "e">>])

\* a reply sent from the mailbox
SentMessage == [labelIds |-> {"SENT"}, from_h |-> MeFrom]

\* users.getProfile: the current historyId
currentMarker == Len(history)

RECURSIVE count_messages(_)
count_messages(S) ==
    IF S = {} THEN 0
    ELSE LET t == CHOOSE x \in S : TRUE
         IN  Len(mailbox[t]) + count_messages(S \ {t})

\* message ids (and internalDate) grow with every message of the mailbox
next_id == count_messages(Threads) + 1

add_message(t, a) ==
    LET id == next_id
    IN  /\ mailbox' = [mailbox EXCEPT ![t] =
              Append(@, [id |-> id, internalDate |-> Some(id),
                         labelIds |-> a.labelIds, from_h |-> a.from_h])]
        /\ history' = Append(history, [tid |-> t, inbox |-> "INBOX" \in a.labelIds])

\* threads.list returns the threads most recent first
thread_key(t) == mailbox[t][Len(mailbox[t])].id

RECURSIVE order_by_recency(_)
order_by_recency(S) ==
    IF S = {} THEN <<>>
    ELSE LET t == CHOOSE x \in S : \A y \in S : thread_key(y) <= thread_key(x)
         IN  <<t>> \o order_by_recency(S \ {t})

\* threads.list(labelIds=["INBOX"]): the threads with a message in the inbox
inbox_listing ==
    order_by_recency({t \in Threads :
        \E i \in 1..Len(mailbox[t]) : "INBOX" \in mailbox[t][i].labelIds})

\* history.list(startHistoryId, labelId="INBOX"): the events after the marker
\* that concern a message in the inbox
events_since(marker) == {k \in 1..Len(history) : k > marker /\ history[k].inbox}

Perms(S) == {s \in [1..Cardinality(S) -> S] : \A i, j \in 1..Cardinality(S) : i # j => s[i] # s[j]}

Min(a, b) == IF a < b THEN a ELSE b

\* the Python slice s[:n]: the first n elements, and for a negative n all but
\* the last -n
py_prefix(s, n) ==
    IF n >= 0 THEN SubSeq(s, 1, Min(n, Len(s)))
    ELSE IF Len(s) + n > 0 THEN SubSeq(s, 1, Len(s) + n) ELSE <<>>

----------------------------------------------------------------------------
(* sync_inbox_threads: one invocation *)

ArgSet ==
    [ranged : BOOLEAN, incremental : BOOLEAN, awaiting_only : BOOLEAN, max_threads : {1, 2}]

NoResult == [kind |-> "none"]

\* the exception that left the invocation: where it was raised, its type, and
\* how many tickets the loop had staged by then
Raised(at, error, staged) == [kind |-> "raised", at |-> at, error |-> error, staged |-> staged]

IdleRun ==
    [pc |-> "idle",
     args |-> None,
     current_history_id |-> None,
     thread_ids |-> <<>>,
     page_token |-> 0,
     i |-> 1,
     upserted |-> 0,
     skipped |-> 0,
     used_history |-> FALSE,
     hit_limit |-> FALSE,
     listed |-> {},
     listed_upto |-> 0,
     ret |-> None,
     awaiting_reply |-> None,
     directions |-> <<>>,
     triaged |-> FALSE,
     ai_error |-> FALSE,
     ai_done |-> {},
     sess |-> EmptySession,
     result |-> NoResult]

NoChain == [on |-> FALSE, live |-> FALSE, quiet |-> FALSE, n |-> 0, args |-> None,
            store |-> [t \in Threads |-> None], cut |-> {}]

\* observer: remote or local activity.  While the first run of a chain is
\* still running the chain goes on and remembers it; later it ends the chain
Disturb ==
    chain' = IF ~chain.on THEN chain
             ELSE IF chain.live /\ chain.n = 0 THEN [chain EXCEPT !.quiet = FALSE]
             ELSE [NoChain EXCEPT !.on = TRUE]

\* observer: a gateway or database failure ends the chain
Failure == chain' = [NoChain EXCEPT !.on = chain.on]

\* observer: the candidates the listing of run r found and the cap dropped
cut_off(r) ==
    LET taken == {run[r].thread_ids[k] : k \in 1..Len(run[r].thread_ids)}
    IN  IF ~run[r].hit_limit THEN {}
        ELSE IF run[r].used_history
        THEN {history[k].tid : k \in run[r].listed} \ taken
        ELSE {inbox_listing[k] : k \in 1..Len(inbox_listing)} \ taken

RunDone(r) ==
    chain' = IF chain.on /\ chain.live
             THEN [chain EXCEPT !.n = Min(@ + 1, 2),
                                !.store = IF chain.n = 0 THEN tickets' ELSE @,
                                !.cut = IF chain.n = 0 THEN cut_off(r) ELSE @]
             ELSE chain

\* lines 384-387: open the session, build the gateway
Start(r, args) ==
    /\ run[r].pc = "idle"
    /\ run' = [run EXCEPT ![r] = [IdleRun EXCEPT !.pc = "profile", !.args = Some(args)]]
    /\ chain' = IF ~chain.on \/ (chain.live /\ chain.n >= 1 /\ chain.args = Some(args))
                THEN chain
                ELSE [on |-> TRUE, live |-> TRUE, quiet |-> TRUE, n |-> 0, args |-> Some(args),
                      store |-> tickets, cut |-> {}]
    /\ UNCHANGED <<mailbox, history, expired, tickets, app_state, blacklist, MY_EMAILS, reminder_state, last_read,
                   last_error, ai_log>>

\* lines 392-394: read the current historyId before any listing
GetProfile(r) ==
    /\ run[r].pc = "profile"
    /\ run' = [run EXCEPT ![r].current_history_id = Some(currentMarker), ![r].pc = "list"]
    /\ UNCHANGED <<mailbox, history, expired, tickets, app_state, blacklist, MY_EMAILS, reminder_state,
                   chain, last_read, last_error, ai_log>>

\* lines 405-413: the change log is tailed from the stored watermark
ListHistory(r) ==
    LET a == Val(run[r].args)
        sess == db_get_state(run[r].sess)
        last_history_id == sess.st_cur
    IN  /\ run[r].pc = "list"
        /\ ~a.ranged
        /\ a.incremental /\ IsSet(last_history_id) /\ IsSet(run[r].current_history_id)
        /\ Val(last_history_id) >= expired
        /\ LET ev == events_since(Val(last_history_id))
               tids == {history[k].tid : k \in ev}
           IN  \E order \in Perms(tids) :
                 run' = [run EXCEPT
                    ![r].sess = sess,
                    ![r].thread_ids = IF Len(order) > a.max_threads
                                      THEN py_prefix(order, a.max_threads) ELSE order,
                    ![r].hit_limit = Len(order) > a.max_threads,
                    ![r].used_history = TRUE,
                    ![r].listed = ev,
                    ![r].listed_upto = Len(history),
                    ![r].pc = "loop"]
        /\ UNCHANGED <<mailbox, history, expired, tickets, app_state, blacklist, MY_EMAILS, reminder_state,
                       chain, last_read, last_error, ai_log>>

\* lines 400-402 (range), 414-421 (marker expired, 404) and 424-427 (first
\* sync): the listing goes through _list_thread_ids_in_range
ListRange(r) ==
    LET a == Val(run[r].args)
        sess == IF a.ranged THEN run[r].sess ELSE db_get_state(run[r].sess)
        last_history_id == sess.st_cur
    IN  /\ run[r].pc = "list"
        /\ \/ a.ranged
           \/ ~(a.incremental /\ IsSet(last_history_id) /\ IsSet(run[r].current_history_id))
           \/ (IsSet(last_history_id) /\ Val(last_history_id) < expired)
        /\ run' = [run EXCEPT ![r].sess = sess, ![r].pc = "paging"]
        /\ UNCHANGED <<mailbox, history, expired, tickets, app_state, blacklist, MY_EMAILS, reminder_state,
                       chain, last_read, last_error, ai_log>>

PageSize == 1

\* the paging loop with maxResults = 500 whatever has been collected
ListPage_fixedsize(r) ==
    LET a == Val(run[r].args)
        maxResults == 500
        all == inbox_listing
        from == run[r].page_token
        upto == Min(Len(all), from + Min(PageSize, maxResults))
        threads == SubSeq(all, from + 1, upto)
        room == a.max_threads - Len(run[r].thread_ids)
        taken == threads
        hit == Len(threads) >= room
    IN  /\ run[r].pc = "paging"
        /\ run' = [run EXCEPT
                   ![r].thread_ids = @ \o taken,
                   ![r].hit_limit = hit,
                   ![r].page_token = upto,
                   ![r].pc = IF hit \/ upto >= Len(all) THEN "loop" ELSE "paging"]
        /\ UNCHANGED <<mailbox, history, expired, tickets, app_state, blacklist, MY_EMAILS, reminder_state,
                       chain, last_read, last_error, ai_log>>

\* lines 182-213: one iteration of the paging loop of _list_thread_ids_in_range
ListPage(r) ==
    LET a == Val(run[r].args)
        maxResults == Min(500, a.max_threads - Len(run[r].thread_ids))
        all == inbox_listing
        from == run[r].page_token
        upto == Min(Len(all), from + Min(PageSize, maxResults))
        threads == SubSeq(all, from + 1, upto)
        room == a.max_threads - Len(run[r].thread_ids)
        taken == IF Len(threads) >= room THEN SubSeq(threads, 1, room) ELSE threads
        hit == Len(threads) >= room
    IN  /\ run[r].pc = "paging"
        /\ IF maxResults <= 0
           THEN run' = [run EXCEPT ![r].hit_limit = TRUE, ![r].pc = "loop"]
           ELSE run' = [run EXCEPT
                   ![r].thread_ids = @ \o taken,
                   ![r].hit_limit = hit,
                   ![r].page_token = upto,
                   ![r].pc = IF hit \/ upto >= Len(all) THEN "loop" ELSE "paging"]
        /\ UNCHANGED <<mailbox, history, expired, tickets, app_state, blacklist, MY_EMAILS, reminder_state,
                       chain, last_read, last_error, ai_log>>

\* lines 431-436: reconcile the next candidate thread
Reconcile(r) ==
    LET a == Val(run[r].args)
        tid == run[r].thread_ids[run[r].i]
        res == _upsert_ticket_from_thread(run[r].sess, tid, mailbox[tid], a.awaiting_only)
    IN  /\ run[r].pc = "loop"
        /\ run[r].i <= Len(run[r].thread_ids)
        /\ run' = [run EXCEPT
              ![r].sess = res.sess,
              ![r].ret = Some(res.ret),
              ![r].awaiting_reply = res.awaiting,
              ![r].directions = [k \in 1..Len(mailbox[tid]) |-> outbound(mailbox[tid][k], MY_EMAILS)],
              ![r].upserted = IF res.ret THEN @ + 1 ELSE @,
              ![r].skipped = IF res.ret THEN @ ELSE @ + 1,
              ![r].i = @ + 1]
        /\ UNCHANGED <<mailbox, history, expired, tickets, app_state, blacklist, MY_EMAILS, reminder_state,
                       chain, last_read, last_error, ai_log>>

\* the except branch without its count
FetchFailed_uncounted(r) ==
    /\ run[r].pc = "loop"
    /\ run[r].i <= Len(run[r].thread_ids)
    /\ run' = [run EXCEPT
          ![r].ret = None,
          ![r].awaiting_reply = None,
          ![r].directions = <<>>,
          ![r].i = @ + 1]
    /\ Failure
    /\ UNCHANGED <<mailbox, history, expired, tickets, app_state, blacklist, MY_EMAILS, reminder_state,
                   last_read, last_error, ai_log>>

\* lines 437-440: the thread detail could not be fetched (HttpError)
FetchFailed(r) ==
    /\ run[r].pc = "loop"
    /\ run[r].i <= Len(run[r].thread_ids)
    /\ run' = [run EXCEPT
          ![r].ret = None,
          ![r].awaiting_reply = None,
          ![r].directions = <<>>,
          ![r].skipped = @ + 1,
          ![r].i = @ + 1]
    /\ Failure
    /\ UNCHANGED <<mailbox, history, expired, tickets, app_state, blacklist, MY_EMAILS, reminder_state,
                   last_read, last_error, ai_log>>

\* lines 433-436: the locals of the run after one call of the reconciler
after_reconcile(rec, tid, res) ==
    [rec EXCEPT
        !.sess = res.sess,
        !.ret = Some(res.ret),
        !.awaiting_reply = res.awaiting,
        !.directions = [k \in 1..Len(mailbox[tid]) |-> outbound(mailbox[tid][k], MY_EMAILS)],
        !.triaged = res.triaged,
        !.ai_error = res.ai_error,
        !.ai_done = IF res.triaged /\ ~res.ai_error
                    THEN @ \cup {<<tid, mailbox[tid][Len(mailbox[tid])].id>>}
                    ELSE @,
        !.upserted = IF res.ret THEN @ + 1 ELSE @,
        !.skipped = IF res.ret THEN @ ELSE @ + 1,
        !.i = @ + 1]

\* lines 431-436 for an invocation that carries the auto_triage argument
\* (tasks.py poll and the gmail_poll job: True; sync.py: False)
ReconcileTriage(r) ==
    LET a == Val(run[r].args)
        tid == run[r].thread_ids[run[r].i]
    IN  /\ run[r].pc = "loop"
        /\ run[r].i <= Len(run[r].thread_ids)
        /\ \E outcome \in TriageOutcomes :
             run' = [run EXCEPT ![r] =
                        after_reconcile(run[r], tid,
                            _upsert_ticket_from_thread_auto(run[r].sess, tid, mailbox[tid],
                                a.awaiting_only, a.auto_triage, outcome))]
        /\ UNCHANGED <<mailbox, history, expired, tickets, app_state, blacklist, MY_EMAILS, reminder_state,
                       chain, last_read, last_error, ai_log>>

\* the finally clause (db.close()) when an exception leaves the run, as if it
\* committed what the loop had staged
close_session_commits(sess) ==
    [tickets |-> committed_tickets(sess), app_state |-> committed_state(sess)]

\* lines 460-461, finally: db.close() ends the session without a commit, what
\* was staged is discarded
close_session(sess) == [tickets |-> tickets, app_state |-> app_state]

\* the value the run stores as the watermark: the marker read at the start
watermark_at_end(r) == Some(currentMarker)

watermark_to_store(r) == run[r].current_history_id

\* a summary that reports the mode from the arguments alone
Summary_mode_from_args(r) ==
    LET a == Val(run[r].args)
    IN  [kind |-> "ok",
         threads_requested |-> Len(run[r].thread_ids),
         upserted |-> run[r].upserted,
         skipped |-> run[r].skipped,
         mode |-> IF a.ranged THEN "range"
                  ELSE IF a.incremental THEN "history" ELSE "recent",
         watermark |-> run[r].current_history_id,
         hit_limit |-> run[r].hit_limit]

\* a summary that reports every run that had a stored watermark as a
\* history run
Summary_mode_from_watermark(r) ==
    LET a == Val(run[r].args)
    IN  [kind |-> "ok",
         threads_requested |-> Len(run[r].thread_ids),
         upserted |-> run[r].upserted,
         skipped |-> run[r].skipped,
         mode |-> IF a.ranged THEN "range"
                  ELSE IF a.incremental /\ IsSet(run[r].sess.st_loaded) THEN "history"
                  ELSE "recent",
         watermark |-> run[r].current_history_id,
         hit_limit |-> run[r].hit_limit]

\* a summary that reports the cap only for a truncated change-log listing
Summary_hit_history_only(r) ==
    LET a == Val(run[r].args)
    IN  [kind |-> "ok",
         threads_requested |-> Len(run[r].thread_ids),
         upserted |-> run[r].upserted,
         skipped |-> run[r].skipped,
         mode |-> IF run[r].used_history THEN "history"
                  ELSE IF a.ranged THEN "range" ELSE "recent",
         watermark |-> run[r].current_history_id,
         hit_limit |-> run[r].used_history /\ run[r].hit_limit]

Summary(r) ==
    LET a == Val(run[r].args)
    IN  [kind |-> "ok",
         threads_requested |-> Len(run[r].thread_ids),
         upserted |-> run[r].upserted,
         skipped |-> run[r].skipped,
         mode |-> IF run[r].used_history THEN "history"
                  ELSE IF a.ranged THEN "range" ELSE "recent",
         watermark |-> run[r].current_history_id,
         hit_limit |-> run[r].hit_limit]

\* lines 442-459: stage the watermark, commit everything at once, return
Commit(r) ==
    LET a == Val(run[r].args)
        wm == watermark_to_store(r)
        sess == IF ~a.ranged /\ IsSet(wm)
                THEN set_state(run[r].sess, Val(wm))
                ELSE run[r].sess
    IN  /\ run[r].pc = "loop"
        /\ run[r].i > Len(run[r].thread_ids)
        /\ IF commit_error(sess) # ""
           THEN /\ run' = [run EXCEPT ![r] = [IdleRun EXCEPT !.pc = "done",
                                 !.result = Raised("commit", commit_error(sess), run[r].upserted)]]
                /\ tickets' = close_session(run[r].sess).tickets
                /\ app_state' = close_session(run[r].sess).app_state
                /\ UNCHANGED <<last_read, ai_log>>
           ELSE /\ tickets' = committed_tickets(sess)
                /\ ai_log' = ai_log \cup run[r].ai_done
                /\ app_state' = committed_state(sess)
                /\ run' = [run EXCEPT ![r] = [IdleRun EXCEPT !.pc = "done",
                                                              !.result = Summary(r)]]
                /\ last_read' = IF a.ranged THEN last_read
                                 ELSE Some([read |-> Val(run[r].current_history_id),
                                            upto |-> currentMarker])
        /\ RunDone(r)
        /\ UNCHANGED <<mailbox, history, expired, blacklist, MY_EMAILS, reminder_state, last_error>>

\* an error that is not caught (gateway or database failure) leaves
\* sync_inbox_threads; the finally clause closes the session
Raise(r) ==
    /\ run[r].pc \in {"profile", "list", "paging", "loop"}
    /\ run' = [run EXCEPT ![r] = [IdleRun EXCEPT !.pc = "done",
                          !.result = Raised(run[r].pc, "Exception", run[r].upserted)]]
    /\ tickets' = close_session(run[r].sess).tickets
    /\ app_state' = close_session(run[r].sess).app_state
    /\ Failure
    /\ UNCHANGED <<mailbox, history, expired, blacklist, MY_EMAILS, reminder_state, last_read, last_error, ai_log>>

\* the RuntimeError of get_gmail_service left uncaught
NotConnected_raises(r) ==
    /\ run[r].pc = "profile"
    /\ run' = [run EXCEPT ![r] = [IdleRun EXCEPT !.pc = "done",
                          !.result = Raised("gateway", "RuntimeError", 0)]]
    /\ tickets' = close_session(run[r].sess).tickets
    /\ app_state' = close_session(run[r].sess).app_state
    /\ Failure
    /\ UNCHANGED <<mailbox, history, expired, blacklist, MY_EMAILS, reminder_state, last_read, last_error, ai_log>>

\* lines 386-390: get_gmail_service raises RuntimeError (no token row, no
\* service account, no impersonated user); the run returns ok = False with
\* the error text
NotConnected(r) ==
    /\ run[r].pc = "profile"
    /\ run' = [run EXCEPT ![r] = [IdleRun EXCEPT !.pc = "done",
                          !.result = [kind |-> "failed", error |-> "RuntimeError"]]]
    /\ tickets' = close_session(run[r].sess).tickets
    /\ app_state' = close_session(run[r].sess).app_state
    /\ Failure
    /\ UNCHANGED <<mailbox, history, expired, blacklist, MY_EMAILS, reminder_state, last_read, last_error, ai_log>>

\* lines 231-236 inside the loop of 431-440: threads.get fails with an error
\* that is no HttpError (connection reset, timeout, name resolution); the
\* except clause of line 437 does not match and the error leaves the run
FetchRaised(r) ==
    /\ run[r].pc = "loop"
    /\ run[r].i <= Len(run[r].thread_ids)
    /\ run' = [run EXCEPT ![r] = [IdleRun EXCEPT !.pc = "done",
                          !.result = Raised("fetch", "TransportError", run[r].upserted)]]
    /\ tickets' = close_session(run[r].sess).tickets
    /\ app_state' = close_session(run[r].sess).app_state
    /\ Failure
    /\ UNCHANGED <<mailbox, history, expired, blacklist, MY_EMAILS, reminder_state, last_read, last_error, ai_log>>

\* the caller takes the summary or the exception
Return(r) ==
    /\ run[r].pc = "done"
    /\ run' = [run EXCEPT ![r] = IdleRun]
    /\ UNCHANGED <<mailbox, history, expired, tickets, app_state, blacklist, MY_EMAILS, reminder_state,
                   chain, last_read, last_error, ai_log>>

----------------------------------------------------------------------------
(* Remote activity *)

\* a message arrives in, or is sent from, the mailbox
Deliver(t, a) ==
    /\ Len(history) < MaxHist
    /\ add_message(t, a)
    /\ Disturb
    /\ UNCHANGED <<expired, tickets, app_state, blacklist, MY_EMAILS, reminder_state, run, last_read, last_error, ai_log>>

\* the user reads a thread in the mail client: the UNREAD label goes and the
\* change log records a labelRemoved event for the thread (history.list is
\* asked for messageAdded, labelAdded and labelRemoved, lines 134-140)
MarkRead(t) ==
    /\ Len(history) < MaxHist
    /\ \E i \in 1..Len(mailbox[t]) : {"INBOX", "UNREAD"} \subseteq mailbox[t][i].labelIds
    /\ mailbox' = [mailbox EXCEPT ![t] =
          [i \in 1..Len(@) |-> [@[i] EXCEPT !.labelIds = @ \ {"UNREAD"}]]]
    /\ history' = Append(history, [tid |-> t, inbox |-> TRUE])
    /\ Disturb
    /\ UNCHANGED <<expired, tickets, app_state, blacklist, MY_EMAILS, reminder_state, run, last_read,
                   last_error, ai_log>>

\* the provider drops the change log up to the current marker
ExpireHistory ==
    /\ expired < currentMarker
    /\ expired' = currentMarker
    /\ Disturb
    /\ UNCHANGED <<mailbox, history, tickets, app_state, blacklist, MY_EMAILS, reminder_state, run, last_read,
                   last_error, ai_log>>

----------------------------------------------------------------------------
(* app/routers/tickets.py and app/routers/blacklist.py: each request is one
   session and one commit *)

\* the status update without lines 213-214
update_status_keepsflag(thread_id, status) ==
    /\ IsSet(tickets[thread_id])
    /\ tickets' = [tickets EXCEPT ![thread_id] = Some([Val(@) EXCEPT !.status = status])]
    /\ Disturb
    /\ UNCHANGED <<mailbox, history, expired, app_state, blacklist, MY_EMAILS, reminder_state, run, last_read,
                   last_error, ai_log>>

\* PATCH /tickets/{thread_id}/status
update_status(thread_id, status) ==
    /\ IsSet(tickets[thread_id])
    /\ tickets' = [tickets EXCEPT ![thread_id] =
          Some([Val(@) EXCEPT
                  !.status = status,
                  !.is_not_replied = IF status \in {"RESPONDED", "NO_REPLY_NEEDED"}
                                     THEN FALSE ELSE @])]
    /\ Disturb
    /\ UNCHANGED <<mailbox, history, expired, app_state, blacklist, MY_EMAILS, reminder_state, run, last_read,
                   last_error, ai_log>>

\* POST /tickets/{thread_id}/send-ack, the reply was sent
send_ack(thread_id, mark_as_responded) ==
    /\ IsSet(tickets[thread_id])
    /\ Val(tickets[thread_id]).from_email # <<>>
    /\ Len(history) < MaxHist
    /\ add_message(thread_id, SentMessage)
    /\ tickets' = [tickets EXCEPT ![thread_id] =
          Some([Val(@) EXCEPT
                  !.last_from_me = TRUE,
                  !.status = IF mark_as_responded THEN "RESPONDED" ELSE @,
                  !.is_not_replied = FALSE])]
    /\ Disturb
    /\ UNCHANGED <<expired, app_state, blacklist, MY_EMAILS, reminder_state, run, last_read, last_error, ai_log>>

\* the exceptions send_reply_in_thread lets through: no recipient
\* (gmail_send.py line 16-17), gateway not connected (get_gmail_service),
\* the provider rejects the message (messages().send)
SendErrors == {"ValueError", "RuntimeError", "HttpError"}

\* a failing send-ack that does the ticket bookkeeping before it sends
send_ack_failed_marks(thread_id, mark_as_responded, error) ==
    /\ IsSet(tickets[thread_id])
    /\ error \in SendErrors
    /\ (Val(tickets[thread_id]).from_email = <<>>) <=> (error = "ValueError")
    /\ tickets' = [tickets EXCEPT ![thread_id] =
          Some([Val(@) EXCEPT
                  !.last_from_me = TRUE,
                  !.status = IF mark_as_responded THEN "RESPONDED" ELSE @,
                  !.is_not_replied = FALSE])]
    /\ last_error' = Some([op |-> "send_ack", thread_id |-> thread_id, error |-> error])
    /\ UNCHANGED <<mailbox, history, expired, app_state, blacklist, MY_EMAILS, reminder_state, run, chain,
                   last_read, ai_log>>

\* POST /tickets/{thread_id}/send-ack, lines 366-376: send_reply_in_thread
\* raises, the handler is left before any assignment to the ticket and
\* before add_audit and commit; get_db closes the session
send_ack_failed(thread_id, mark_as_responded, error) ==
    /\ IsSet(tickets[thread_id])
    /\ error \in SendErrors
    /\ (Val(tickets[thread_id]).from_email = <<>>) <=> (error = "ValueError")
    /\ last_error' = Some([op |-> "send_ack", thread_id |-> thread_id, error |-> error])
    /\ UNCHANGED <<mailbox, history, expired, tickets, app_state, blacklist, MY_EMAILS, reminder_state, run,
                   chain, last_read, ai_log>>

\* tickets.py line 166 and 283: the hash the listing and ai_analyze compute
src_hash(ticket) == content_hash(<<ticket_subject(ticket), ticket_snippet(ticket)>>)

\* GET /tickets, lines 158-176: the tickets whose classification is missing
\* or was made for another hash are classified again, res[t] is the
\* classifier's answer for ticket t
list_tickets(res) ==
    /\ tickets' = [t \in Threads |->
          IF /\ IsSet(tickets[t])
             /\ \/ Val(tickets[t]).ai_category = None
                \/ Val(tickets[t]).ai_source_hash # Some(src_hash(Val(tickets[t])))
          THEN Some([Val(tickets[t]) EXCEPT
                        !.ai_category = Some(res[t]),
                        !.ai_source_hash = Some(src_hash(Val(tickets[t])))])
          ELSE tickets[t]]
    /\ Disturb
    /\ UNCHANGED <<mailbox, history, expired, app_state, blacklist, MY_EMAILS, reminder_state, run, last_read,
                   last_error, ai_log>>

\* POST /tickets/{thread_id}/ai-analyze, lines 275-305
ai_analyze(thread_id, res) ==
    /\ IsSet(tickets[thread_id])
    /\ tickets' = [tickets EXCEPT ![thread_id] =
          Some([Val(@) EXCEPT
                  !.ai_category = Some(res),
                  !.ai_source_hash = Some(src_hash(Val(tickets[thread_id])))])]
    /\ Disturb
    /\ UNCHANGED <<mailbox, history, expired, app_state, blacklist, MY_EMAILS, reminder_state, run, last_read,
                   last_error, ai_log>>

\* POST /tickets/admin/flush with confirm = 'FLUSH'
flush_database ==
    /\ tickets' = [t \in Threads |-> None]
    /\ app_state' = None
    /\ last_read' = None
    /\ ai_log' = {}
    /\ Disturb
    /\ UNCHANGED <<mailbox, history, expired, blacklist, MY_EMAILS, reminder_state, run, last_error>>

\* the confirmations an administrator may send
FlushInputs ==
    {<<"F", "L", "U", "S", "H">>,
     <<" ", "f", "l", "u", "s", "h", " ">>,
     <<"F", "l", "u", "s", "h">>,
     <<"F", "L", "U", "S">>,
     <<"y", "e", "s">>,
     <<>>}

\* the test of line 547 without strip and upper
flush_confirmed_exact(confirm) == confirm = <<"F", "L", "U", "S", "H">>

\* line 547: (payload.confirm or "").strip().upper() == "FLUSH"
flush_confirmed(confirm) == Upper(Strip(confirm)) = <<"F", "L", "U", "S", "H">>

\* POST /tickets/admin/flush, lines 537-557, with any confirmation: refused
\* with HTTPException(400) before the first statement that touches the
\* database, or both tables emptied and committed
flush_request(confirm) ==
    /\ IF flush_confirmed(confirm)
       THEN /\ tickets' = [t \in Threads |-> None]
            /\ app_state' = None
            /\ last_read' = None
            /\ ai_log' = {}
            /\ last_error' = Some([op |-> "flush_database", confirm |-> confirm, error |-> ""])
       ELSE /\ last_error' = Some([op |-> "flush_database", confirm |-> confirm,
                                   error |-> "HTTPException 400"])
            /\ UNCHANGED <<tickets, app_state, last_read, ai_log>>
    /\ Disturb
    /\ UNCHANGED <<mailbox, history, expired, blacklist, MY_EMAILS, reminder_state, run>>

----------------------------------------------------------------------------
(* app/services/reminders.py: the reminder digest *)

REMINDER_COOLDOWN_SECONDS == 2   \* settings.REMINDER_COOLDOWN_SECONDS as configured
MaxNow == 3                      \* the clock stops here
DigestLimit == 20                \* .limit(20)

\* lines 22-33: the three filters of the query
reminder_due(ticket, cooldown_cutoff) ==
    /\ ticket.status \in {"PENDING", "IN_PROGRESS"}
    /\ ticket.is_not_replied \/ ticket.is_unread
    /\ \/ ticket.last_reminded_at = None
       \/ Val(ticket.last_reminded_at) < cooldown_cutoff

\* line 34: last_message_at ascending, rows without it last
RECURSIVE order_by_last_message_at(_)
order_by_last_message_at(S) ==
    IF S = {} THEN <<>>
    ELSE LET at(x) == Val(tickets[x]).last_message_at
             t == CHOOSE x \in S : \A y \in S :
                     \/ at(y) = None
                     \/ at(x) # None /\ Val(at(x)) <= Val(at(y))
         IN  <<t>> \o order_by_last_message_at(S \ {t})

\* lines 21-37: the rows the query returns
select_reminders(cooldown_cutoff) ==
    py_prefix(order_by_last_message_at(
                  {t \in Threads : /\ IsSet(tickets[t])
                                   /\ reminder_due(Val(tickets[t]), cooldown_cutoff)}),
              DigestLimit)

\* lines 16-40: open the session, read the clock, run the query; with no row
\* return at once
remind_query(r) ==
    LET cooldown_cutoff == now - REMINDER_COOLDOWN_SECONDS
        sel == select_reminders(cooldown_cutoff)
    IN  /\ reminders[r].pc = "idle"
        /\ reminders' = [reminders EXCEPT ![r] =
              IF sel = <<>>
              THEN [IdleReminder EXCEPT !.result = Some([ok |-> TRUE, reminded |-> 0])]
              ELSE [pc |-> "sending", now |-> now, tickets |-> sel,
                    loaded |-> [k \in 1..Len(sel) |-> Val(tickets[sel[k]])],
                    result |-> None]]
        /\ UNCHANGED <<mailbox, history, expired, tickets, app_state, blacklist, MY_EMAILS,
                       run, chain, last_read, last_error, ai_log, now, digests>>

\* the rows of the session after lines 62-64, written to the table by key:
\* the UPDATE sets the two columns that were assigned
reminded_rows(rec) ==
    [t \in Threads |->
        IF \E k \in 1..Len(rec.tickets) : rec.tickets[k] = t
        THEN LET k == CHOOSE j \in 1..Len(rec.tickets) : rec.tickets[j] = t
             IN  Some([Val(tickets[t]) EXCEPT
                          !.last_reminded_at = Some(rec.now),
                          !.reminder_count = rec.loaded[k].reminder_count + 1])
        ELSE tickets[t]]

\* lines 42-59 and 68-69: _send_new_email raises (gateway not connected, or
\* the provider rejects the message); the session is closed
remind_send_failed(r, error) ==
    /\ reminders[r].pc = "sending"
    /\ reminders' = [reminders EXCEPT ![r] = IdleReminder]
    /\ last_error' = Some([op |-> "run_reminders", error |-> error])
    /\ UNCHANGED <<mailbox, history, expired, tickets, app_state, blacklist, MY_EMAILS,
                   run, chain, last_read, ai_log, now, digests>>

\* lines 42-66: the digest is sent, the bookkeeping of its rows is assigned
\* and committed
remind_commit(r) ==
    LET rec == reminders[r]
    IN  /\ rec.pc = "sending"
        /\ \A k \in 1..Len(rec.tickets) : IsSet(tickets[rec.tickets[k]])
        /\ digests' = [t \in Threads |->
                          IF \E k \in 1..Len(rec.tickets) : rec.tickets[k] = t
                          THEN Some(rec.now) ELSE digests[t]]
        /\ tickets' = reminded_rows(rec)
        /\ reminders' = [reminders EXCEPT ![r] =
              [IdleReminder EXCEPT !.result = Some([ok |-> TRUE, reminded |-> Len(rec.tickets)])]]
        /\ UNCHANGED <<mailbox, history, expired, app_state, blacklist, MY_EMAILS,
                       run, chain, last_read, last_error, ai_log, now>>

\* a second passes
Tick ==
    /\ now < MaxNow
    /\ now' = now + 1
    /\ UNCHANGED <<mailbox, history, expired, tickets, app_state, blacklist, MY_EMAILS,
                   run, chain, last_read, last_error, ai_log, reminders, digests>>

\* POST /blacklist
add_blacklist(email) ==
    /\ Lower(Strip(email)) # <<>>
    /\ Lower(Strip(email)) \notin blacklist
    /\ blacklist' = blacklist \cup {Lower(Strip(email))}
    /\ Disturb
    /\ UNCHANGED <<mailbox, history, expired, tickets, app_state, MY_EMAILS, reminder_state, run, last_read,
                   last_error, ai_log>>

\* DELETE /blacklist?email=
delete_blacklist_by_email(email) ==
    /\ Lower(Strip(email)) \in blacklist
    /\ blacklist' = blacklist \ {Lower(Strip(email))}
    /\ Disturb
    /\ UNCHANGED <<mailbox, history, expired, tickets, app_state, MY_EMAILS, reminder_state, run, last_read,
                   last_error, ai_log>>

\* the addresses the blacklist requests are made with
BlacklistInputs == {<<" ", "S", "p">>}

----------------------------------------------------------------------------
(* The system: sync invocations one at a time, remote activity and requests
   in between and during a run *)

Init ==
    /\ mailbox = [t \in Threads |-> <<>>]
    /\ history = <<>>
    /\ expired = 0
    /\ tickets = [t \in Threads |-> None]
    /\ app_state = None
    /\ blacklist = {}
    /\ MY_EMAILS = <<<<"M", "e", " ">>, <<" ">>>>
    /\ now = 0
    /\ reminders = [r \in Runs |-> IdleReminder]
    /\ digests = [t \in Threads |-> None]
    /\ run = [r \in Runs |-> IdleRun]
    /\ chain = NoChain
    /\ last_read = None
    /\ last_error = None
    /\ ai_log = {}

SyncStep(r) ==
    \/ GetProfile(r)
    \/ ListHistory(r)
    \/ ListRange(r)
    \/ ListPage(r)
    \/ Reconcile(r)
    \/ FetchFailed(r)
    \/ Commit(r)
    \/ Raise(r)
    \/ Return(r)

Quiescent == \A r \in Runs : run[r].pc = "idle"

CustArrival == [labelIds |-> {"INBOX", "UNREAD"}, from_h |-> CustFrom]
SpamArrival == [labelIds |-> {"INBOX", "UNREAD"}, from_h |-> SpamFrom]

Next ==
    \/ \E a \in ArgSet : Start(1, a)
    \/ SyncStep(1)
    \/ \E t \in Threads, a \in {CustArrival, SentMessage} : Deliver(t, a)
    \/ Quiescent /\ \E t \in Threads, s \in Statuses : update_status(t, s)
    \/ Quiescent /\ \E t \in Threads, m \in BOOLEAN : send_ack(t, m)
    \/ Quiescent /\ flush_database

Spec == Init /\ [][Next]_vars

\* the same system with the observer of consecutive runs switched on
InitChain ==
    /\ mailbox = [t \in Threads |-> <<>>]
    /\ history = <<>>
    /\ expired = 0
    /\ tickets = [t \in Threads |-> None]
    /\ app_state = None
    /\ blacklist = {}
    /\ MY_EMAILS = <<<<"M", "e", " ">>, <<" ">>>>
    /\ now = 0
    /\ reminders = [r \in Runs |-> IdleReminder]
    /\ digests = [t \in Threads |-> None]
    /\ run = [r \in Runs |-> IdleRun]
    /\ chain = [NoChain EXCEPT !.on = TRUE]
    /\ last_read = None
    /\ last_error = None
    /\ ai_log = {}

SpecChain == InitChain /\ [][Next]_vars

\* a mailbox that already holds two inbox threads (older than the change log)
\* while syncs run and more mail arrives
InitPaging ==
    /\ mailbox = [t \in Threads |->
                    <<[id |-> IF t = "t1" THEN 1 ELSE 2,
                       internalDate |-> Some(IF t = "t1" THEN 1 ELSE 2),
                       labelIds |-> CustArrival.labelIds,
                       from_h |-> CustArrival.from_h]>>]
    /\ history = <<>>
    /\ expired = 0
    /\ tickets = [t \in Threads |-> None]
    /\ app_state = None
    /\ blacklist = {}
    /\ MY_EMAILS = <<<<"M", "e", " ">>, <<" ">>>>
    /\ now = 0
    /\ reminders = [r \in Runs |-> IdleReminder]
    /\ digests = [t \in Threads |-> None]
    /\ run = [r \in Runs |-> IdleRun]
    /\ chain = NoChain
    /\ last_read = None
    /\ last_error = None
    /\ ai_log = {}

NextPaging ==
    \/ \E a \in ArgSet : Start(1, a)
    \/ SyncStep(1)
    \/ \E t \in Threads : Deliver(t, CustArrival)

SpecPaging == InitPaging /\ [][NextPaging]_vars

\* the same mailbox with syncs whose max_threads is any integer the query
\* parameter admits: negative, zero, below and at the number of threads
CapArgSet ==
    [ranged : BOOLEAN, incremental : BOOLEAN, awaiting_only : {FALSE},
     max_threads : {-1, 0, 1, 2}]

NextCap ==
    \/ \E a \in CapArgSet : Start(1, a)
    \/ SyncStep(1)
    \/ \E t \in Threads : Deliver(t, CustArrival)

SpecCap == InitPaging /\ [][NextCap]_vars

\* syncs with and without a date range, arriving mail, and flush requests
\* between the runs
FlushArgSet ==
    [ranged : BOOLEAN, incremental : {TRUE}, awaiting_only : {FALSE}, max_threads : {2}]

NextFlush ==
    \/ \E a \in FlushArgSet : Start(1, a)
    \/ SyncStep(1)
    \/ \E t \in Threads : Deliver(t, CustArrival)
    \/ Quiescent /\ \E c \in FlushInputs : flush_request(c)

SpecFlush == Init /\ [][NextFlush]_vars

\* tickets of two threads as syncs leave them, the reminder job and
\* POST /tasks/remind (invocations 1 and 2), status updates, a running clock
RemindTickets(t) ==
    {[NewTicket(t) EXCEPT !.is_unread = (t = "t2") /\ n, !.is_not_replied = (t = "t1") /\ n,
                          !.last_message_at = Some(IF t = "t1" THEN 1 ELSE 2)] :
        n \in BOOLEAN}

InitRemind ==
    /\ mailbox = [t \in Threads |-> <<>>]
    /\ history = <<>>
    /\ expired = 0
    /\ \E row1 \in RemindTickets("t1"), row2 \in RemindTickets("t2") :
          tickets = [t \in Threads |-> IF t = "t1" THEN Some(row1) ELSE Some(row2)]
    /\ app_state = None
    /\ blacklist = {}
    /\ MY_EMAILS = <<<<"M", "e", " ">>, <<" ">>>>
    /\ now = 0
    /\ reminders = [r \in Runs |-> IdleReminder]
    /\ digests = [t \in Threads |-> None]
    /\ run = [r \in Runs |-> IdleRun]
    /\ chain = NoChain
    /\ last_read = None
    /\ last_error = None
    /\ ai_log = {}

NextRemind ==
    \/ \E r \in Runs : remind_query(r)
    \/ \E r \in Runs : remind_commit(r)
    \/ \E r \in Runs, e \in {"RuntimeError", "HttpError"} : remind_send_failed(r, e)
    \/ \E t \in Threads, st \in {"IN_PROGRESS", "RESPONDED"} : update_status(t, st)
    \/ Tick

SpecRemind == InitRemind /\ [][NextRemind]_vars

\* the same with one invocation of run_reminders at a time
NextRemindSeq ==
    \/ (\A r \in Runs : reminders[r].pc = "idle") /\ remind_query(1)
    \/ remind_commit(1)
    \/ \E e \in {"RuntimeError", "HttpError"} : remind_send_failed(1, e)
    \/ \E t \in Threads, st \in {"IN_PROGRESS", "RESPONDED"} : update_status(t, st)
    \/ Tick

SpecRemindSeq == InitRemind /\ [][NextRemindSeq]_vars

\* the invocation keeps running: a paging loop that can take a step takes it
SpecCapFair == InitPaging /\ [][NextCap]_vars /\ WF_vars(ListPage(1))

\* syncs, arriving mail and a blacklist that changes
NextBlacklist ==
    \/ \E a \in ArgSet : Start(1, a)
    \/ SyncStep(1)
    \/ \E t \in Threads, a \in {CustArrival, SpamArrival} : Deliver(t, a)
    \/ \E e \in BlacklistInputs : add_blacklist(e)
    \/ \E e \in BlacklistInputs : delete_blacklist_by_email(e)

SpecBlacklist == Init /\ [][NextBlacklist]_vars

\* syncs against a gateway that can be unavailable, fail on a fetch or drop
\* its change log, while mail arrives
NextFaults ==
    \/ \E a \in ArgSet : Start(1, a)
    \/ SyncStep(1)
    \/ NotConnected(1)
    \/ FetchRaised(1)
    \/ \E t \in Threads : Deliver(t, CustArrival)
    \/ ExpireHistory

SpecFaults == Init /\ [][NextFaults]_vars

\* polls with automatic classification (tasks.py, the gmail_poll job) and
\* manual syncs without it (sync.py), the ticket list and ai_analyze between
\* the runs, while mail arrives
TriageArgSet ==
    [ranged : {FALSE}, incremental : {TRUE}, awaiting_only : BOOLEAN, max_threads : {2},
     auto_triage : BOOLEAN]

NextTriage ==
    \/ \E a \in TriageArgSet : Start(1, a)
    \/ GetProfile(1)
    \/ ListHistory(1)
    \/ ListRange(1)
    \/ ListPage(1)
    \/ ReconcileTriage(1)
    \/ Commit(1)
    \/ Return(1)
    \/ \E t \in Threads, a \in {CustArrival, SentMessage} : Deliver(t, a)
    \/ \E t \in Threads : MarkRead(t)
    \/ Quiescent /\ \E res \in [Threads -> AiCategories] : list_tickets(res)
    \/ Quiescent /\ \E t \in Threads, res \in AiCategories : ai_analyze(t, res)

SpecTriage == Init /\ [][NextTriage]_vars

\* replies sent from the ticket view, with a gateway that can fail, for
\* tickets in every status, with and without a recipient address
SendTickets ==
    {[NewTicket("t1") EXCEPT !.status = s, !.is_not_replied = n, !.last_from_me = f,
                             !.from_email = e, !.last_message_id = Some(1),
                             !.priority = "medium"] :
        s \in Statuses, n \in BOOLEAN, f \in BOOLEAN, e \in {<<>>, <<"c", "u">>}}

InitSend ==
    /\ mailbox = [t \in Threads |->
                    IF t = "t1"
                    THEN <<[id |-> 1, internalDate |-> Some(1),
                            labelIds |-> CustArrival.labelIds, from_h |-> CustArrival.from_h]>>
                    ELSE <<>>]
    /\ history = <<>>
    /\ expired = 0
    /\ \E ticket \in SendTickets :
          tickets = [t \in Threads |-> IF t = "t1" THEN Some(ticket) ELSE None]
    /\ app_state = None
    /\ blacklist = {}
    /\ MY_EMAILS = <<<<"M", "e", " ">>, <<" ">>>>
    /\ now = 0
    /\ reminders = [r \in Runs |-> IdleReminder]
    /\ digests = [t \in Threads |-> None]
    /\ run = [r \in Runs |-> IdleRun]
    /\ chain = NoChain
    /\ last_read = None
    /\ last_error = None
    /\ ai_log = {}

NextSend ==
    \/ \E t \in Threads, m \in BOOLEAN : send_ack(t, m)
    \/ \E t \in Threads, m \in BOOLEAN, e \in SendErrors : send_ack_failed(t, m, e)
    \/ \E t \in Threads, s \in Statuses : update_status(t, s)
    \/ \E t \in Threads : Deliver(t, CustArrival)

SpecSend == InitSend /\ [][NextSend]_vars

\* sync_inbox_threads takes no lock and its triggers (the gmail_poll job,
\* POST /fetch-now, POST /check-updates, POST /tasks/poll) call it directly:
\* a trigger starts a run whether or not another run is executing, and the
\* requests of the ticket view are served while runs execute
ConcArgSet ==
    [ranged : {FALSE}, incremental : {TRUE}, awaiting_only : {TRUE}, max_threads : {2}]

ConcStep(r) ==
    \/ GetProfile(r)
    \/ ListHistory(r)
    \/ ListRange(r)
    \/ ListPage(r)
    \/ Reconcile(r)
    \/ Commit(r)
    \/ Return(r)

\* triggers that arrive while a run is executing
NextOverlap ==
    \/ \E r \in Runs, a \in ConcArgSet : Start(r, a)
    \/ \E r \in Runs : ConcStep(r)
    \/ \E t \in Threads : Deliver(t, CustArrival)

SpecOverlap == Init /\ [][NextOverlap]_vars

\* status updates from the ticket view that arrive while a run is executing
NextLive ==
    \/ \E a \in ConcArgSet : Start(1, a)
    \/ ConcStep(1)
    \/ \E t \in Threads, a \in {CustArrival, SentMessage} : Deliver(t, a)
    \/ \E t \in Threads, s \in Statuses : update_status(t, s)

SpecLive == Init /\ [][NextLive]_vars

----------------------------------------------------------------------------
(* The reconciler on its input space: one invocation stands before the
   per-thread loop with the single candidate "t1" *)

SeqsUpTo(S, n) == UNION {[1..k -> S] : k \in 0..n}

WithIds(bodies) ==
    [k \in 1..Len(bodies) |->
        [id |-> k, internalDate |-> bodies[k].internalDate,
         labelIds |-> bodies[k].labelIds, from_h |-> bodies[k].from_h]]

Dates == {None} \cup {Some(d) : d \in 1..MaxTs}

BlankFrom == Some([name |-> <<"M">>, addr |-> <<" ">>])

DirBodies ==
    [internalDate : Dates,
     labelIds : {{}, {"SENT"}, {"INBOX", "UNREAD"}},
     from_h : {None, CustFrom, MeFrom, BlankFrom}]

DirConfigs ==
    {<<>>,
     <<<<"M", "e", " ">>, <<" ">>>>,
     <<<<" ", "c", "U">>>>}

AtLoop(args) ==
    [IdleRun EXCEPT !.pc = "loop", !.args = Some(args),
                    !.current_history_id = Some(0), !.thread_ids = <<"t1">>]

InitDir ==
    /\ \E bodies \in SeqsUpTo(DirBodies, MaxMsgs) :
          mailbox = [t \in Threads |-> IF t = "t1" THEN WithIds(bodies) ELSE <<>>]
    /\ history = <<>>
    /\ expired = 0
    /\ tickets = [t \in Threads |-> None]
    /\ app_state = None
    /\ blacklist = {}
    /\ MY_EMAILS \in DirConfigs
    /\ now = 0
    /\ reminders = [r \in Runs |-> IdleReminder]
    /\ digests = [t \in Threads |-> None]
    /\ run = [r \in Runs |->
                IF r = 1
                THEN AtLoop([ranged |-> TRUE, incremental |-> TRUE,
                             awaiting_only |-> FALSE, max_threads |-> 1])
                ELSE IdleRun]
    /\ chain = NoChain
    /\ last_read = None
    /\ last_error = None
    /\ ai_log = {}

NextDir == Reconcile(1) \/ Commit(1)

SpecDir == InitDir /\ [][NextDir]_vars

RecBodies ==
    {[internalDate |-> d, labelIds |-> a.labelIds, from_h |-> a.from_h] :
        d \in Dates, a \in {CustArrival, SpamArrival, SentMessage}}

Priorities == {"", "high", "medium", "low", "urgent"}

PriorTickets ==
    {[NewTicket("t1") EXCEPT !.status = s, !.priority = p, !.is_not_replied = n,
                             !.due_at = d, !.last_message_at = d] :
        s \in Statuses, p \in Priorities, n \in BOOLEAN, d \in {None, Some(1)}}

InitRec ==
    /\ \E bodies \in SeqsUpTo(RecBodies, MaxMsgs) :
          mailbox = [t \in Threads |-> IF t = "t1" THEN WithIds(bodies) ELSE <<>>]
    /\ history = <<>>
    /\ expired = 0
    /\ \E prior \in {None} \cup {Some(p) : p \in PriorTickets} :
          tickets = [t \in Threads |-> IF t = "t1" THEN prior ELSE None]
    /\ app_state = None
    /\ blacklist \in SUBSET {<<"s", "p">>}
    /\ MY_EMAILS = <<<<"M", "e", " ">>, <<" ">>>>
    /\ now = 0
    /\ reminders = [r \in Runs |-> IdleReminder]
    /\ digests = [t \in Threads |-> None]
    /\ \E ao \in BOOLEAN :
          run = [r \in Runs |->
                   IF r = 1
                   THEN AtLoop([ranged |-> TRUE, incremental |-> TRUE,
                                awaiting_only |-> ao, max_threads |-> 1])
                   ELSE IdleRun]
    /\ chain = NoChain
    /\ last_read = None
    /\ last_error = None
    /\ ai_log = {}

NextRec == Reconcile(1) \/ Commit(1)

SpecRec == InitRec /\ [][NextRec]_vars

----------------------------------------------------------------------------
(* Properties of the reconciler *)

\* the invocation has just reconciled its single candidate "t1"
Reconciled == run[1].pc = "loop" /\ run[1].i = 2 /\ IsSet(run[1].ret)

Thread1 == mailbox["t1"]

Inbound == {k \in 1..Len(Thread1) : ~run[1].directions[k]}
Outbound == {k \in 1..Len(Thread1) : run[1].directions[k]}
Dated(S) == {k \in S : IsSet(Thread1[k].internalDate)}
DateOf(k) == Val(Thread1[k].internalDate)

\* some message of I is later than every message of O
Later(I, O) == \E i \in I : \A o \in O : DateOf(i) > DateOf(o)

\* C1 as stated: awaiting reply iff an INBOUND message exists and either no
\* OUTBOUND message exists or the latest INBOUND timestamp is strictly greater
\* than the latest OUTBOUND timestamp
C1_AwaitingAsStated ==
    Reconciled /\ IsSet(run[1].awaiting_reply) =>
        (Val(run[1].awaiting_reply) <=>
            /\ Inbound # {}
            /\ (Outbound = {} \/ (Dated(Outbound) # {} /\ Later(Dated(Inbound), Dated(Outbound)))))

\* C1 amended: awaiting reply iff an INBOUND message with a timestamp exists
\* and either no OUTBOUND message with a timestamp exists or the latest
\* INBOUND timestamp is strictly greater than the latest OUTBOUND timestamp;
\* messages without a timestamp do not count, the order in the list does not
\* matter, equal timestamps give false
C1_AwaitingReply ==
    Reconciled /\ IsSet(run[1].awaiting_reply) =>
        (Val(run[1].awaiting_reply) <=>
            /\ Dated(Inbound) # {}
            /\ (Dated(Outbound) = {} \/ Later(Dated(Inbound), Dated(Outbound))))

\* an awaiting thread whose last listed message is an earlier outbound one
C1_Witness ==
    /\ Reconciled
    /\ run[1].awaiting_reply = Some(TRUE)
    /\ Len(Thread1) = 2
    /\ Dated(Outbound) = {2}
    /\ Dated(Inbound) = {1}

EqualsIgnoreCase(a, b) ==
    /\ Len(a) = Len(b)
    /\ \A i \in 1..Len(a) : LowerChar(a[i]) = LowerChar(b[i])

\* the From address is one of the configured own addresses, ignoring case
FromIsOwn(from_h) ==
    /\ IsSet(from_h)
    /\ Strip(Val(from_h).addr) # <<>>
    /\ \E j \in 1..Len(MY_EMAILS) :
          EqualsIgnoreCase(Strip(Val(from_h).addr), Strip(MY_EMAILS[j]))

\* C8: the direction the reconciler uses for a message is OUTBOUND iff the
\* message carries the SENT label or its From address equals, ignoring case,
\* one of the configured own addresses
C8_Direction ==
    Reconciled =>
        \A k \in 1..Len(Thread1) :
            run[1].directions[k] <=>
                ("SENT" \in Thread1[k].labelIds \/ FromIsOwn(Thread1[k].from_h))

\* a message without the SENT label is OUTBOUND through its From address,
\* which differs in case from the configured one
C8_Witness ==
    /\ Reconciled
    /\ \E k \in 1..Len(Thread1) :
          /\ run[1].directions[k]
          /\ "SENT" \notin Thread1[k].labelIds
          /\ \A j \in 1..Len(MY_EMAILS) : Strip(Val(Thread1[k].from_h).addr) # Strip(MY_EMAILS[j])

\* the ticket of "t1" as the session holds it after the reconcile
Staged1 ==
    IF IsSet(run[1].sess.cur["t1"])
    THEN Val(run[1].sess.cur["t1"])
    ELSE run[1].sess.pending[Len(run[1].sess.pending)]

\* the status the reconcile started from: the stored one, PENDING for a new ticket
Prior1 == IF IsSet(tickets["t1"]) THEN Val(tickets["t1"]).status ELSE "PENDING"

Updated1 == Reconciled /\ run[1].ret = Some(TRUE)

\* the thread is two dated messages, the later one second, with these directions
TwoMessages(first_outbound, second_outbound) ==
    /\ Len(Thread1) = 2
    /\ Dated({1, 2}) = {1, 2}
    /\ DateOf(2) > DateOf(1)
    /\ run[1].directions = <<first_outbound, second_outbound>>

\* C9: after a reconcile that updates a ticket, an awaiting thread turns
\* RESPONDED into PENDING and leaves every other status; a thread that is not
\* awaiting gives RESPONDED unless the status was NO_REPLY_NEEDED; for a new or
\* previously RESPONDED ticket [INBOUND, OUTBOUND] gives RESPONDED and
\* [OUTBOUND, INBOUND] gives PENDING
C9_StatusReconciliation ==
    Updated1 =>
        /\ Val(run[1].awaiting_reply) =>
              Staged1.status = IF Prior1 = "RESPONDED" THEN "PENDING" ELSE Prior1
        /\ ~Val(run[1].awaiting_reply) =>
              Staged1.status = IF Prior1 = "NO_REPLY_NEEDED" THEN Prior1 ELSE "RESPONDED"
        /\ (tickets["t1"] = None \/ Prior1 = "RESPONDED") =>
              /\ TwoMessages(FALSE, TRUE) => Staged1.status = "RESPONDED"
              /\ TwoMessages(TRUE, FALSE) => Staged1.status = "PENDING"

\* a RESPONDED ticket is reopened by [OUTBOUND, INBOUND]
C9_Witness ==
    /\ Updated1
    /\ IsSet(tickets["t1"])
    /\ Prior1 = "RESPONDED"
    /\ TwoMessages(TRUE, FALSE)
    /\ Staged1.status = "PENDING"

----------------------------------------------------------------------------
(* Properties of the running system (Spec) *)

NoReplyNeeded(t) == IsSet(tickets[t]) /\ Val(tickets[t]).status = "NO_REPLY_NEEDED"

SyncStepTaken == \E r \in Runs : run'[r] # run[r]

\* C2: once a ticket's status is NO_REPLY_NEEDED no step of a sync run
\* changes it: whatever the thread looks like when it is reconciled, the
\* committed ticket still exists and still has status NO_REPLY_NEEDED
C2_StickyNoReplyNeeded ==
    [][\A t \in Threads :
          (NoReplyNeeded(t) /\ SyncStepTaken)
              => (IsSet(tickets'[t]) /\ Val(tickets'[t]).status = "NO_REPLY_NEEDED")]_vars

\* a sync run has rewritten a NO_REPLY_NEEDED ticket whose thread awaits a
\* reply (only the reconciler sets is_not_replied) and left the status alone
C2_Witness ==
    \E t \in Threads :
        /\ NoReplyNeeded(t)
        /\ Val(tickets[t]).is_not_replied
        /\ run[1].pc = "done" /\ run[1].result.kind = "ok" /\ run[1].result.upserted >= 1

Closed == {"RESPONDED", "NO_REPLY_NEEDED"}

EntersClosed(t) ==
    /\ IsSet(tickets'[t])
    /\ Val(tickets'[t]).status \in Closed
    /\ (tickets[t] = None \/ Val(tickets[t]).status # Val(tickets'[t]).status)

\* C10: whenever a committed ticket's status becomes RESPONDED or
\* NO_REPLY_NEEDED (by the reconciler's promotion, a manual status update or
\* an acknowledgement sent with mark-as-responded), its is_not_replied
\* flag is false after that step
C10_ClosedClearsNotReplied ==
    [][\A t \in Threads : EntersClosed(t) => ~Val(tickets'[t]).is_not_replied]_vars

\* the reconciler has promoted a ticket: it is RESPONDED, not flagged, and
\* its last message is the sent reply the run has seen
C10_Witness ==
    \E t \in Threads :
        /\ IsSet(tickets[t])
        /\ Val(tickets[t]).status = "RESPONDED"
        /\ ~Val(tickets[t]).is_not_replied
        /\ run[1].pc = "done" /\ run[1].result.kind = "ok" /\ run[1].result.upserted >= 1
        /\ \E k \in 1..Len(mailbox[t]) :
              /\ Val(tickets[t]).last_message_id = Some(mailbox[t][k].id)
              /\ "SENT" \in mailbox[t][k].labelIds

Succeeds(r) == run'[r].pc = "done" /\ run'[r].result.kind = "ok"

\* C4: a step of a sync run that is not its successful commit (a listing, a
\* reconciliation, a raised gateway or database error, a commit the database
\* rejects) leaves the committed watermark and every committed ticket as
\* they were, and a run that raised returns no summary
C4_FailedRunChangesNothing ==
    [][\A r \in Runs :
          (run'[r] # run[r] /\ ~Succeeds(r))
              => /\ tickets' = tickets
                 /\ app_state' = app_state
                 /\ (run'[r].pc = "done" => run'[r].result.kind = "raised")]_vars

\* a run has raised after it had staged a ticket, and the store shows neither
\* the ticket nor a watermark
C4_Witness ==
    /\ run[1].pc = "done"
    /\ run[1].result.kind = "raised"
    /\ run[1].result.staged >= 1
    /\ app_state = None
    /\ \A t \in Threads : tickets[t] = None

\* C5: a sync in history mode lists every inbox change that lies after the
\* marker the last committed non-range sync had read at its start, up to the
\* head of the change log at the time of the listing
C5_NoInboxChangeSkipped ==
    \A r \in Runs :
        (run[r].pc = "loop" /\ run[r].used_history /\ IsSet(last_read))
            => \A k \in 1..run[r].listed_upto :
                  (k > Val(last_read).read /\ history[k].inbox) => k \in run[r].listed

\* the listing holds a change that landed while the previous sync was running
\* (after its marker was read, before its commit)
C5_Witness ==
    \E r \in Runs :
        /\ run[r].pc = "loop" /\ run[r].used_history /\ IsSet(last_read)
        /\ \E k \in run[r].listed :
              Val(last_read).read < k /\ k <= Val(last_read).upto

----------------------------------------------------------------------------
(* Two runs in a row (SpecChain) *)

\* the second of two runs with equal arguments has just committed or raised
SecondRunEnded == chain.on /\ chain.live /\ chain.n = 2

----------------------------------------------------------------------------
(* Duplicate candidates (SpecPaging) *)

\* C6: the ticket store holds at most one ticket per thread id, and no sync
\* run ends with a duplicate-key failure of its commit, whatever candidate
\* list the listing returned
C6_NoDuplicateKeyFailure ==
    /\ \A t \in Threads : IsSet(tickets[t]) => Val(tickets[t]).thread_id = t
    /\ \A r \in Runs :
          ~(/\ run[r].pc = "done"
            /\ run[r].result.kind = "raised"
            /\ run[r].result.error = "IntegrityError")

----------------------------------------------------------------------------
(* Blacklisted senders (SpecBlacklist) *)

\* invocation r has reconciled (fetched and processed) its next candidate
ReconcileStep(r) ==
    /\ run[r].pc = "loop" /\ run'[r].pc = "loop"
    /\ run'[r].i = run[r].i + 1
    /\ IsSet(run'[r].ret)

Candidate(r) == run[r].thread_ids[run[r].i]

\* the lowercased address parsed from the From header of the last message
Sender(messages) == Lower(parse_email_address(messages[Len(messages)].from_h).email)

SenderBlacklisted(t) ==
    /\ mailbox[t] # <<>>
    /\ Sender(mailbox[t]) # <<>>
    /\ Sender(mailbox[t]) \in blacklist

\* C7: in every sync run, when the sender of the thread being reconciled is
\* in the blacklist at that time, the reconciler returns false and stages
\* nothing: no ticket is created and an existing ticket is left as it is
C7_BlacklistedSenderSkipped ==
    [][\A r \in Runs :
          (ReconcileStep(r) /\ SenderBlacklisted(Candidate(r)))
              => /\ run'[r].ret = Some(FALSE)
                 /\ run'[r].sess = run[r].sess
                 /\ run'[r].skipped = run[r].skipped + 1
                 /\ tickets' = tickets]_vars

\* a run has just skipped a thread of a blacklisted sender that has a ticket
\* from before the sender was blacklisted
C7_Witness ==
    \E r \in Runs :
        /\ run[r].pc = "loop" /\ run[r].i > 1
        /\ run[r].ret = Some(FALSE)
        /\ SenderBlacklisted(run[r].thread_ids[run[r].i - 1])
        /\ IsSet(tickets[run[r].thread_ids[run[r].i - 1]])

----------------------------------------------------------------------------
(* The due date (SpecRec) *)

\* the offset in days the due date policy gives a priority
Offset(priority) ==
    CASE priority = "high" -> 0
      [] priority = "medium" -> 2
      [] priority = "low" -> 3
      [] OTHER -> 2

\* C11: after every reconcile that updates a ticket, a due_at that is set
\* equals last_message_at + offset(priority), for every thread content and
\* every prior ticket state (a ticket without last_message_at has no due_at
\* that was derived from another timestamp)
C11_DueDerivedFromLastMessage ==
    Updated1 =>
        (IsSet(Staged1.due_at) =>
            /\ IsSet(Staged1.last_message_at)
            /\ Val(Staged1.due_at) = Val(Staged1.last_message_at) + Offset(Staged1.priority))

----------------------------------------------------------------------------
(* The watermark and the commit (Spec) *)

Ranged(r) == IsSet(run[r].args) /\ Val(run[r].args).ranged

\* C12: a step of a run given a date range never changes the stored
\* watermark; a step of any run changes it only when the loop is over and the
\* run completes; a run without a range that completes stores the marker it
\* read at its start, and that marker was read before any listing step
C12_WatermarkAdvance ==
    [][\A r \in Runs :
          run'[r] # run[r] =>
              /\ Ranged(r) => app_state' = app_state
              /\ app_state' # app_state =>
                    /\ run[r].pc = "loop" /\ run[r].i > Len(run[r].thread_ids)
                    /\ Succeeds(r)
              /\ (Succeeds(r) /\ ~Ranged(r)) =>
                    /\ IsSet(run[r].current_history_id)
                    /\ app_state' = run[r].current_history_id
              /\ run[r].pc \in {"list", "paging", "loop"} =>
                    /\ IsSet(run[r].current_history_id)
                    /\ (run'[r].pc # "done" =>
                          run'[r].current_history_id = run[r].current_history_id)]_vars

\* a run without a range has completed and stored the marker of its start
\* although the mailbox has moved on since
C12_Witness ==
    /\ run[1].pc = "done" /\ run[1].result.kind = "ok"
    /\ run[1].result.mode # "range"
    /\ run[1].result.upserted >= 1
    /\ app_state = run[1].result.watermark
    /\ IsSet(app_state) /\ Val(app_state) < currentMarker

\* what invocation r has staged is in the store after the step
StagedVisible(r) ==
    /\ \A i \in 1..Len(run[r].sess.pending) :
          tickets'[run[r].sess.pending[i].thread_id] = Some(run[r].sess.pending[i])
    /\ \A t \in run[r].sess.dirty : tickets'[t] = run[r].sess.cur[t]
    /\ ~Ranged(r) => app_state' = run[r].current_history_id

\* C13: a step of a sync run either leaves the committed tickets and the
\* committed watermark as they were, or it is the commit that ends the run
\* and makes every ticket the run has staged and its watermark visible at
\* once
C13_SingleCommit ==
    [][\A r \in Runs :
          run'[r] # run[r] =>
              \/ tickets' = tickets /\ app_state' = app_state
              \/ Succeeds(r) /\ StagedVisible(r)]_vars

\* one commit of a history-mode run has stored two tickets and the watermark
C13_Witness ==
    /\ run[1].pc = "done" /\ run[1].result.kind = "ok"
    /\ run[1].result.upserted = 2
    /\ run[1].result.mode = "history"
    /\ app_state = run[1].result.watermark
    /\ \A t \in Threads : IsSet(tickets[t])

----------------------------------------------------------------------------
(* The thread-id source and the expired marker (SpecFaults) *)

\* invocation r is about to list: history mode is possible
HistoryPossible(r) ==
    /\ ~Ranged(r)
    /\ Val(run[r].args).incremental
    /\ IsSet(app_state)
    /\ IsSet(run[r].current_history_id)

\* the provider answers the change-log listing from the stored marker
MarkerServed == Val(app_state) >= expired

\* C14: the listing step uses the change log exactly when no range is given,
\* incremental is true, a watermark is stored, the gateway reported a marker
\* and the provider still serves the stored marker; the choice stays for the
\* rest of the run; the summary's mode is 'range' exactly for a run with a
\* range, otherwise 'history' exactly when the change log was used, otherwise
\* 'recent'
C14_ModeSelection ==
    [][\A r \in Runs :
          run'[r] # run[r] =>
              /\ (run[r].pc = "list" /\ run'[r].pc # "done") =>
                    (run'[r].used_history <=> (HistoryPossible(r) /\ MarkerServed))
              /\ (run[r].pc \in {"paging", "loop"} /\ run'[r].pc # "done") =>
                    run'[r].used_history = run[r].used_history
              /\ Succeeds(r) =>
                    run'[r].result.mode =
                        IF Val(run[r].args).ranged THEN "range"
                        ELSE IF run[r].used_history THEN "history"
                        ELSE "recent"]_vars

\* a run without a range and with a stored watermark has used the change log
\* and says so
C14_Witness ==
    /\ run[1].pc = "done" /\ run[1].result.kind = "ok"
    /\ run[1].result.mode = "history"
    /\ run[1].result.threads_requested >= 1
    /\ expired >= 1

\* invocation r found its stored marker expired and lists the recent window
FellBack(r) ==
    /\ run[r].pc \in {"paging", "loop"}
    /\ ~Ranged(r)
    /\ Val(run[r].args).incremental
    /\ IsSet(run[r].sess.st_loaded)
    /\ IsSet(run[r].current_history_id)
    /\ ~run[r].used_history

InInbox(t) == \E i \in 1..Len(mailbox[t]) : "INBOX" \in mailbox[t][i].labelIds

\* C15: when the stored marker is expired at the change-log listing of an
\* incremental run, the run goes on with the listing of the recent inbox
\* window; such a run that completes stores the marker it read at its start
\* and returns ok with mode 'recent'; a listing step that ends the run ends
\* it with a raised error and commits nothing
C15_ExpiredMarkerFallback ==
    [][\A r \in Runs :
          run'[r] # run[r] =>
              /\ (run[r].pc = "list" /\ HistoryPossible(r) /\ ~MarkerServed
                    /\ run'[r].pc # "done") =>
                    /\ run'[r].pc = "paging"
                    /\ ~run'[r].used_history
              /\ (FellBack(r) /\ run[r].pc = "paging" /\ run'[r].pc # "done") =>
                    \A i \in 1..Len(run'[r].thread_ids) : InInbox(run'[r].thread_ids[i])
              /\ (FellBack(r) /\ Succeeds(r)) =>
                    /\ app_state' = run[r].current_history_id
                    /\ run'[r].result.mode = "recent"
                    /\ run'[r].result.watermark = run[r].current_history_id
              /\ (run[r].pc \in {"list", "paging"} /\ run'[r].pc = "done") =>
                    /\ run'[r].result.kind = "raised"
                    /\ tickets' = tickets /\ app_state' = app_state]_vars

\* a run whose stored marker had expired has reconciled a thread of the
\* recent window
C15_Witness ==
    \E r \in Runs :
        /\ FellBack(r)
        /\ run[r].pc = "loop"
        /\ Val(run[r].sess.st_loaded) < expired
        /\ run[r].upserted >= 1

----------------------------------------------------------------------------
(* The cap (Spec) *)

\* the number of candidate threads the source of invocation r holds at the
\* step that ends its listing
Candidates(r) ==
    IF run'[r].used_history
    THEN Cardinality({history[k].tid :
            k \in {j \in 1..Len(history) : j > Val(app_state) /\ history[j].inbox}})
    ELSE Cardinality({t \in Threads : InInbox(t)})

MaxThreads(r) == Val(run[r].args).max_threads

\* C16: in every mode, when the listing ends with more candidate threads
\* than max_threads, the candidate list has exactly max_threads entries and
\* hit_limit is set; the loop processes each entry once, counting it as
\* upserted or skipped, and the summary of the completed run reports
\* threads_requested = upserted + skipped and that hit_limit
C16_CapEnforced ==
    [][\A r \in Runs :
          run'[r] # run[r] =>
              /\ (run[r].pc \in {"list", "paging"} /\ run'[r].pc = "loop"
                    /\ Candidates(r) > MaxThreads(r)) =>
                    /\ Len(run'[r].thread_ids) = MaxThreads(r)
                    /\ run'[r].hit_limit
              /\ (run[r].pc = "loop" /\ run'[r].pc = "loop") =>
                    /\ run'[r].thread_ids = run[r].thread_ids
                    /\ run'[r].hit_limit = run[r].hit_limit
                    /\ run'[r].upserted + run'[r].skipped = run[r].i
              /\ Succeeds(r) =>
                    /\ run'[r].result.threads_requested = Len(run[r].thread_ids)
                    /\ run'[r].result.upserted + run'[r].result.skipped
                          = Len(run[r].thread_ids)
                    /\ run'[r].result.hit_limit = run[r].hit_limit]_vars

\* a completed range or recent run over two inbox threads has processed one
\* thread and reports the cap
C16_Witness ==
    /\ run[1].pc = "done" /\ run[1].result.kind = "ok"
    /\ run[1].result.mode # "history"
    /\ run[1].result.threads_requested = 1
    /\ run[1].result.hit_limit
    /\ \A t \in Threads : InInbox(t)

----------------------------------------------------------------------------
(* A failing fetch (SpecFaults) *)

\* the fetch of the next candidate of invocation r fails in this step: with
\* an HttpError (the candidate is passed over) or with another error
FetchFailureStep(r) ==
    /\ run[r].pc = "loop"
    /\ run[r].i <= Len(run[r].thread_ids)
    /\ \/ run'[r].pc = "loop" /\ run'[r].i = run[r].i + 1 /\ run'[r].ret = None
       \/ /\ run'[r].pc = "done"
          /\ run'[r].result.kind = "raised"
          /\ run'[r].result.at = "fetch"

\* C17: when the fetch of a candidate thread fails, the run counts the
\* thread as skipped, stages nothing for it, leaves the store as it is and
\* goes on with the next candidate: the failure never ends the run
C17_FetchFailureSkipped ==
    [][\A r \in Runs :
          FetchFailureStep(r) =>
              /\ run'[r].pc = "loop"
              /\ run'[r].skipped = run[r].skipped + 1
              /\ run'[r].upserted = run[r].upserted
              /\ run'[r].sess = run[r].sess
              /\ tickets' = tickets /\ app_state' = app_state]_vars

----------------------------------------------------------------------------
(* The awaiting-only filter (SpecRec) *)

AwaitingOnly(r) == IsSet(run[r].args) /\ Val(run[r].args).awaiting_only

\* C18: with awaiting_only, the reconcile of a thread that has no ticket and
\* is not awaiting reply returns false, stages nothing and is counted as
\* skipped, and the commit of a run that has only skipped leaves the store as
\* it was
C18_AwaitingOnlyCreatesNothing ==
    [][\A r \in Runs :
          /\ (/\ ReconcileStep(r)
              /\ AwaitingOnly(r)
              /\ tickets[Candidate(r)] = None
              /\ run'[r].awaiting_reply = Some(FALSE)) =>
                 /\ run'[r].ret = Some(FALSE)
                 /\ run'[r].sess.pending = run[r].sess.pending
                 /\ run'[r].sess.dirty = run[r].sess.dirty
                 /\ run'[r].skipped = run[r].skipped + 1
                 /\ run'[r].upserted = run[r].upserted
                 /\ tickets' = tickets
          /\ (Succeeds(r) /\ run[r].upserted = 0) => tickets' = tickets]_vars

\* the filter, not the blacklist, has skipped a thread without a ticket, and
\* the run has committed without creating one
C18_Witness ==
    /\ run[1].pc = "done" /\ run[1].result.kind = "ok"
    /\ run[1].result.skipped = 1 /\ run[1].result.upserted = 0
    /\ blacklist = {}
    /\ Thread1 # <<>>
    /\ ~awaiting_reply(Thread1, MY_EMAILS)
    /\ tickets["t1"] = None

\* the session of invocation r holds the same staged tickets after the step
NothingStaged(r) ==
    /\ run'[r].sess.pending = run[r].sess.pending
    /\ run'[r].sess.dirty = run[r].sess.dirty
    /\ \A t \in Threads : t \in run[r].sess.dirty => run'[r].sess.cur[t] = run[r].sess.cur[t]

----------------------------------------------------------------------------
(* The gateway cannot be built (SpecFaults) *)

\* C20: the RuntimeError of a gateway that cannot be built never leaves the
\* run; a run ends with ok = false only before its first gateway call, with
\* the error text, and that step leaves the committed tickets and the
\* committed watermark as they were
C20_NotConnectedReturnsFailure ==
    [][\A r \in Runs :
          (run'[r] # run[r] /\ run'[r].pc = "done") =>
              /\ run'[r].result.kind = "raised" => run'[r].result.error # "RuntimeError"
              /\ run'[r].result.kind = "failed" =>
                    /\ run[r].pc = "profile"
                    /\ run[r].current_history_id = None
                    /\ run'[r].result.error = "RuntimeError"
                    /\ tickets' = tickets /\ app_state' = app_state]_vars

\* a run on a disconnected mailbox has returned ok = false and the tickets
\* and the watermark of an earlier run are still there
C20_Witness ==
    /\ run[1].pc = "done" /\ run[1].result.kind = "failed"
    /\ IsSet(app_state)
    /\ \E t \in Threads : IsSet(tickets[t])

----------------------------------------------------------------------------
(* Properties of the automatic classification *)

\* the ticket the reconcile step of run r started from: the object of the
\* session, the stored row, or a new ticket
PriorFor(r) ==
    LET t == Candidate(r)
    IN  IF IsSet(run[r].sess.cur[t]) THEN Val(run[r].sess.cur[t])
        ELSE IF IsSet(tickets[t]) THEN Val(tickets[t])
        ELSE NewTicket(t)

\* the ticket the reconcile step of run r has staged for its candidate
StagedFor(r) ==
    LET s == run'[r].sess
    IN  IF Len(s.pending) > Len(run[r].sess.pending)
        THEN s.pending[Len(s.pending)]
        ELSE Val(s.cur[Candidate(r)])

AiFields == {"ai_category", "ai_source_hash"}

LastMessage(t) == mailbox[t][Len(mailbox[t])]

C22_ClassifierOnlyOnChangedContent ==
    [][\A r \in Runs :
          (ReconcileStep(r) /\ run'[r].triaged)
              => /\ Val(run[r].args).auto_triage
                 /\ run'[r].awaiting_reply = Some(TRUE)
                 /\ <<Candidate(r), LastMessage(Candidate(r)).id>> \notin ai_log]_vars

----------------------------------------------------------------------------
(* Properties of the requests *)

SendFailed(t) ==
    /\ last_error' # last_error
    /\ IsSet(last_error')
    /\ Val(last_error').op = "send_ack"
    /\ Val(last_error').thread_id = t

\* C23: when the send of send_ack fails (no recipient, gateway not connected,
\* provider rejection) the caller gets the error, the ticket row is exactly
\* as before (status, is_not_replied, last_from_me and every other column),
\* and nothing was sent in the thread
C23_SendFailureLeavesTicket ==
    [][\A t \in Threads :
          SendFailed(t)
              => /\ tickets' = tickets
                 /\ mailbox' = mailbox
                 /\ Val(last_error').error \in SendErrors
                 /\ (Val(tickets[t]).from_email = <<>>) => Val(last_error').error = "ValueError"]_vars

\* a send failed for a ticket that is still waiting for its reply
C23_Witness ==
    /\ IsSet(last_error) /\ Val(last_error).thread_id = "t1"
    /\ Val(last_error).error = "HttpError"
    /\ IsSet(tickets["t1"])
    /\ Val(tickets["t1"]).status = "PENDING"
    /\ Val(tickets["t1"]).is_not_replied
    /\ ~Val(tickets["t1"]).last_from_me
    /\ Len(mailbox["t1"]) = 1

----------------------------------------------------------------------------
(* Properties of runs and requests that overlap in time *)

\* run r is executing: started and not yet committed, returned or raised
InFlight(r) == run[r].pc \in {"profile", "list", "paging", "loop"}

\* C24: at most one run of sync_inbox_threads is executing at any time,
\* whichever triggers arrive
C24_AtMostOneRunInFlight == Cardinality({r \in Runs : InFlight(r)}) <= 1

\* C30: the stored watermark never decreases, also when runs overlap
C30_WatermarkNeverDecreases ==
    [][IsSet(app_state) => (IsSet(app_state') /\ Val(app_state') >= Val(app_state))]_vars

\* C29: when a run has loaded a ticket with its earlier status and the
\* status is set to NO_REPLY_NEEDED before the run commits, the ticket still
\* has status NO_REPLY_NEEDED after the run's commit
C29_NoReplyNeededSetDuringRun ==
    [][\A r \in Runs, t \in Threads :
          (/\ Succeeds(r)
           /\ IsSet(run[r].sess.loaded[t])
           /\ Val(run[r].sess.loaded[t]).status # "NO_REPLY_NEEDED"
           /\ NoReplyNeeded(t))
              => (IsSet(tickets'[t]) /\ Val(tickets'[t]).status = "NO_REPLY_NEEDED")]_vars

----------------------------------------------------------------------------
(* Frame properties of the ticket store *)

\* the step is the administrative flush: a request, not a step of a run,
\* that empties the ticket table and the watermark
FlushStep ==
    /\ run' = run
    /\ tickets' = [t \in Threads |-> None]
    /\ app_state' = None

\* C25: a ticket row that exists is still there after every step that is not
\* the administrative flush: no step of a sync run in any mode, no status
\* update and no send-ack removes a ticket
C25_TicketsRemovedOnlyByFlush ==
    [][\A t \in Threads :
          (IsSet(tickets[t]) /\ ~IsSet(tickets'[t])) => FlushStep]_vars

\* a run has committed after it reconciled one of two threads whose tickets
\* were closed by hand, and both tickets are still there
C25_Witness ==
    /\ run[1].pc = "done" /\ run[1].result.kind = "ok"
    /\ run[1].result.upserted = 1
    /\ \A t \in Threads : IsSet(tickets[t])
    /\ Val(tickets["t1"]).status = "NO_REPLY_NEEDED"
    /\ Val(tickets["t2"]).status = "RESPONDED"

\* the reconcile of run r meets one of the skip cases: the thread has no
\* messages, the sender of its last message is blacklisted, or there is no
\* ticket for it while awaiting_only is set and it is not awaiting reply
SkipCase(r) ==
    LET t == Candidate(r)
    IN  \/ mailbox[t] = <<>>
        \/ SenderBlacklisted(t)
        \/ /\ tickets[t] = None /\ run[r].sess.cur[t] = None
           /\ AwaitingOnly(r)
           /\ run'[r].awaiting_reply = Some(FALSE)

\* what the reconcile step of run r staged concerns its candidate only
OnlyCandidateStaged(r) ==
    LET s == run[r].sess
        s2 == run'[r].sess
    IN  /\ \A t \in Threads \ {Candidate(r)} :
              /\ s2.cur[t] = s.cur[t]
              /\ (t \in s2.dirty) <=> (t \in s.dirty)
        /\ \/ s2.pending = s.pending /\ Candidate(r) \in s2.dirty
           \/ /\ Len(s2.pending) = Len(s.pending) + 1
              /\ SubSeq(s2.pending, 1, Len(s.pending)) = s.pending
              /\ s2.pending[Len(s2.pending)].thread_id = Candidate(r)
              /\ s2.dirty = s.dirty

C27_SummaryWatermarkIsStored ==
    [][\A r \in Runs : Succeeds(r) => run'[r].result.watermark = app_state']_vars

----------------------------------------------------------------------------
(* Follow-up runs after the cap was hit *)

\* C28: when a run was cut by the cap and a follow-up run with the same
\* arguments, with no remote or local activity since the first run started,
\* completes without hitting the cap, the follow-up has reconciled every
\* thread the first run had to drop
C28_FollowUpReachesCutOff ==
    [][\A r \in Runs :
          (/\ Succeeds(r)
           /\ chain.on /\ chain.live /\ chain.quiet /\ chain.n = 1
           /\ chain.cut # {}
           /\ ~run'[r].result.hit_limit)
              => chain.cut \subseteq {run[r].thread_ids[k] : k \in 1..Len(run[r].thread_ids)}]_vars

----------------------------------------------------------------------------
(* A thread passed over by a failing fetch (SpecFaults) *)

\* the commit step of invocation r, whose last candidate was passed over
\* because its fetch failed
LastFetchFailed(r) ==
    /\ run[r].pc = "loop"
    /\ run[r].i > Len(run[r].thread_ids)
    /\ Len(run[r].thread_ids) >= 1
    /\ run[r].ret = None

LastCandidate(r) == run[r].thread_ids[Len(run[r].thread_ids)]

\* thread t is a candidate of an incremental run that starts from the store
\* this step leaves, with no further activity: the change log holds an inbox
\* event of t after the stored watermark, or the stored watermark has expired
\* and t is in the inbox listing
AgainCandidate(t) ==
    \/ ~IsSet(app_state') /\ InInbox(t)
    \/ /\ IsSet(app_state')
       /\ \/ \E k \in 1..Len(history) :
                k > Val(app_state') /\ history[k].tid = t /\ history[k].inbox
          \/ Val(app_state') < expired /\ InInbox(t)

\* C31: when a run without a range completes after the fetch of a candidate
\* thread failed, the thread is again a candidate of a later incremental run
\* without further activity on it
C31_SkippedThreadIsCandidateAgain ==
    [][\A r \in Runs :
          (Succeeds(r) /\ ~Ranged(r) /\ LastFetchFailed(r)) =>
              AgainCandidate(LastCandidate(r))]_vars

----------------------------------------------------------------------------
(* Nothing cut off (Spec) *)

\* C32: in every mode, when the listing ends with no more candidate threads
\* than max_threads (max_threads >= 1), hit_limit is not set and the
\* candidate list holds every available candidate; the summary of the
\* completed run reports both
C32_NoLimitWhenNothingCut ==
    [][\A r \in Runs :
          run'[r] # run[r] =>
              /\ (run[r].pc \in {"list", "paging"} /\ run'[r].pc = "loop"
                    /\ MaxThreads(r) >= 1
                    /\ Candidates(r) <= MaxThreads(r)) =>
                    /\ ~run'[r].hit_limit
                    /\ Len(run'[r].thread_ids) = Candidates(r)
              /\ Succeeds(r) =>
                    /\ run'[r].result.hit_limit = run[r].hit_limit
                    /\ run'[r].result.threads_requested = Len(run[r].thread_ids)]_vars

----------------------------------------------------------------------------
(* The counts of the summary (SpecCap) *)

\* the loop of invocation r handles one candidate in this step
LoopStep(r) ==
    /\ run[r].pc = "loop" /\ run'[r].pc = "loop"
    /\ run'[r].i = run[r].i + 1

\* C33: each candidate thread is counted once, as upserted when the
\* reconciler returned true and as skipped when it returned false or its
\* fetch failed; the summary of a run that completes with max_threads >= 0
\* has upserted + skipped = threads_requested <= max_threads
C33_CountsAddUp ==
    [][\A r \in Runs :
          /\ LoopStep(r) =>
                /\ run'[r].upserted + run'[r].skipped = run[r].upserted + run[r].skipped + 1
                /\ run'[r].upserted = run[r].upserted + 1 <=> run'[r].ret = Some(TRUE)
          /\ (run[r].pc = "loop" /\ Succeeds(r) /\ MaxThreads(r) >= 0) =>
                /\ run'[r].result.upserted + run'[r].result.skipped
                      = run'[r].result.threads_requested
                /\ run'[r].result.threads_requested <= MaxThreads(r)
                /\ run'[r].result.upserted = run[r].upserted
                /\ run'[r].result.skipped = run[r].skipped]_vars

\* a completed run that counted one thread as upserted and one as skipped
C33_Witness ==
    /\ run[1].pc = "done" /\ run[1].result.kind = "ok"
    /\ run[1].result.upserted = 1
    /\ run[1].result.skipped = 1
    /\ run[1].result.threads_requested = 2

\* a completed run with max_threads = 0
ZeroCapRun ==
    /\ run[1].pc = "done" /\ run[1].result.kind = "ok"
    /\ run[1].result.threads_requested = 0
    /\ run[1].result.hit_limit

----------------------------------------------------------------------------
(* RESPONDED and the not-replied flag (Spec) *)

\* C34: in every committed state reached by sync runs, update_status calls
\* and send_ack calls that do not overlap, a ticket with status RESPONDED has
\* is_not_replied = false
C34_RespondedIsReplied ==
    \A t \in Threads :
        (IsSet(tickets[t]) /\ Val(tickets[t]).status = "RESPONDED") =>
            ~Val(tickets[t]).is_not_replied

\* a sync run has committed RESPONDED for a thread the mailbox owner answered
C34_Witness ==
    /\ run[1].pc = "done" /\ run[1].result.kind = "ok"
    /\ run[1].result.upserted >= 1
    /\ \E t \in Threads :
         /\ IsSet(tickets[t])
         /\ Val(tickets[t]).status = "RESPONDED"
         /\ Len(mailbox[t]) >= 2
         /\ Val(tickets[t]).last_from_me

----------------------------------------------------------------------------
(* The admin flush (SpecFlush) *)

\* the confirmations that equal 'FLUSH' after trimming, in any case
AcceptedConfirmations ==
    {<<"F", "L", "U", "S", "H">>,
     <<" ", "f", "l", "u", "s", "h", " ">>,
     <<"F", "l", "u", "s", "h">>}

\* this step is a flush request: no sync step, no delivery, and the outcome
\* of a flush request is on record after it
FlushRequestStep ==
    /\ run' = run /\ mailbox' = mailbox
    /\ IsSet(last_error')
    /\ Val(last_error').op = "flush_database"

\* the store is as the latest accepted flush left it
Flushed ==
    /\ IsSet(last_error)
    /\ Val(last_error).op = "flush_database"
    /\ Val(last_error).error = ""
    /\ app_state = None

FlushRefused ==
    /\ IsSet(last_error)
    /\ Val(last_error).op = "flush_database"
    /\ Val(last_error).error # ""
    /\ IsSet(app_state)
    /\ \E t \in Threads : IsSet(tickets[t])

----------------------------------------------------------------------------
(* The reminder digest (SpecRemind) *)

\* invocation r of run_reminders sends its digest and commits in this step
DigestStep(r) ==
    /\ reminders[r].pc = "sending"
    /\ reminders'[r].pc = "idle"
    /\ IsSet(reminders'[r].result)

\* the send of invocation r fails in this step
DigestFailedStep(r) ==
    /\ reminders[r].pc = "sending"
    /\ reminders'[r].pc = "idle"
    /\ ~IsSet(reminders'[r].result)

\* the positions of the rows the digest of invocation r lists
Listed(r) == 1..Len(reminders[r].tickets)

SecondDigest ==
    \E t \in Threads :
        /\ Val(tickets[t]).reminder_count = 2
        /\ digests[t] = Val(tickets[t]).last_reminded_at

----------------------------------------------------------------------------
(* The paging loop of the range listing (SpecCapFair) *)

\* invocation r runs one iteration of the paging loop in this step
PageStep(r) ==
    /\ run[r].pc = "paging"
    /\ run'[r] # run[r]
    /\ run'[r].pc # "done"

\* what the cap leaves to collect before the iteration
Room(r) == MaxThreads(r) - Len(run[r].thread_ids)

\* C37: an iteration of the paging loop requests no page when max_threads
\* minus the collected ids is <= 0 and ends the listing with hit_limit set;
\* otherwise the page it takes has at most min(500, max_threads - collected)
\* results, and the loop goes on exactly when the cap is not reached and the
\* page has a next-page token; the listing returns at most max_threads ids
\* (none for max_threads <= 0, with hit_limit set), and it terminates
C37_PagingBoundedAndTerminates ==
    /\ [][\A r \in Runs :
             PageStep(r) =>
                /\ Room(r) <= 0 =>
                      /\ run'[r].thread_ids = run[r].thread_ids
                      /\ run'[r].page_token = run[r].page_token
                      /\ run'[r].hit_limit
                      /\ run'[r].pc = "loop"
                /\ Room(r) > 0 =>
                      /\ run'[r].page_token - run[r].page_token <= Min(500, Room(r))
                      /\ Len(run'[r].thread_ids) - Len(run[r].thread_ids)
                            <= run'[r].page_token - run[r].page_token
                      /\ run'[r].pc = "paging" <=>
                            /\ Len(run'[r].thread_ids) < MaxThreads(r)
                            /\ run'[r].page_token < Len(inbox_listing)
                /\ run'[r].pc = "loop" =>
                      /\ MaxThreads(r) >= 0 => Len(run'[r].thread_ids) <= MaxThreads(r)
                      /\ MaxThreads(r) <= 0 =>
                            /\ run'[r].thread_ids = <<>>
                            /\ run'[r].hit_limit]_vars
    /\ \A r \in Runs : (run[r].pc = "paging") ~> (run[r].pc # "paging")

\* a listing that took two pages and stopped at the cap
C37_Witness ==
    /\ run[1].pc = "loop"
    /\ ~run[1].used_history
    /\ run[1].page_token = 2
    /\ Len(run[1].thread_ids) = 2
    /\ run[1].hit_limit

====
